---- MODULE Spec2Model ----
(***************************************************************************)
(* Model of the rubric scoring engine (rubric/core/node.py, scorer.py).    *)
(*                                                                         *)
(* A heap of RubricNode objects, identified by integers.  Scores are exact *)
(* rationals <<num, den>> in lowest terms; an unset Optional field is the  *)
(* empty tuple.  Several specifications share the variables:               *)
(*   Spec        evaluation and resets on a constructed tree               *)
(*   SpecIdem    repeated evaluations of one tree                          *)
(*   SpecReason  reads of the lazily synthesized reasons                   *)
(*   SpecStruct  construction and structural mutation of nodes             *)
(*   SpecTree    serialization, validation and statistics of a tree        *)
(*   SpecScript  calls of a script scorer and their temporary files        *)
(*   SpecPrune   evaluation of trees whose children are removed            *)
(*   SpecFunction calls of a function scorer                               *)
(*   SpecLLM     calls of a completion-based scorer and score extraction   *)
(*   SpecLeaf    evaluation of a leaf with one of the scorer variants      *)
(*   SpecFloat   the scoring rules on floats instead of exact rationals    *)
(***************************************************************************)
EXTENDS Integers, Sequences, FiniteSets, TLC

\* ------------------------------------------------------------------ bounds
\* Largest tree (number of nodes) evaluated under Spec.
MaxNodes == 3
\* Number of node objects the structural specification may construct.
MaxHeap == 3
\* Longest children list the structural specification builds.
MaxChildren == 2
\* Largest tree whose reasons are read under SpecReason.
MaxReasonNodes == 3
\* Longest standard output of a script, in characters.
MaxOut == 4
\* Number of temporary files after which no further script is run.
MaxFiles == 2
\* Longest completion of the completion service, in characters.
MaxResp == 5
\* Most children of the parent evaluated under SpecFloat.
MaxKids == 3
\* Bits in the significand of a float under SpecFloat (53 in binary64).
Precision == 5

MaxOf(a, b) == IF a > b THEN a ELSE b
Ids == 1 .. MaxOf(MaxNodes, MaxHeap)
\* Depth of recursion after which Python raises RecursionError; any value
\* above the number of nodes separates cyclic from acyclic structures.
RecursionLimit == MaxOf(MaxNodes, MaxHeap) + 2

\* Python's None for the Optional fields (_score, _reason) and return values.
None == <<>>
\* scorer: Optional[LeafScorer] = None
NoScorer == "None"

VARIABLES
    alive,        \* node objects constructed so far
    name,         \* RubricNode.name (stands for name, description, metadata)
    is_critical,  \* RubricNode.is_critical
    children,     \* RubricNode.children, a list of node ids
    scorer,       \* RubricNode.scorer, a scorer configuration or NoScorer
    score,        \* RubricNode._score: None or a rational
    reason,       \* RubricNode._reason: None or <<text>>
    ret,          \* the last call: operation, receiver, outcome, requests issued
    hist,         \* per context, the outcomes of evaluations of the freshly reset tree
    files         \* the temporary script files that exist on disk

vars == <<alive, name, is_critical, children, scorer, score, reason, ret, hist, files>>
shape == <<alive, name, is_critical, children, scorer>>

\* An is_parent that holds of every node.
IsParentAny(p) == p \in alive
\* RubricNode.is_parent: len(self.children) > 0
IsParent(p) == p \in alive /\ Len(children[p]) > 0
\* An is_leaf that holds only of nodes with a scorer.
IsLeafScored(p) == p \in alive /\ Len(children[p]) = 0 /\ scorer[p] # NoScorer
\* RubricNode.is_leaf: len(self.children) == 0
IsLeaf(p) == p \in alive /\ Len(children[p]) = 0

\* ------------------------------------------------------- exact arithmetic
RECURSIVE GCD(_, _)
GCD(a, b) == IF b = 0 THEN a ELSE GCD(b, a % b)

\* The rational n/d in lowest terms (d > 0, n >= 0).
Rat(n, d) == LET g == GCD(n, d) IN <<n \div g, d \div g>>

RatAdd(x, y) == Rat(x[1] * y[2] + y[1] * x[2], x[2] * y[2])
RatDivInt(x, k) == Rat(x[1], x[2] * k)
RatLeq(x, y) == x[1] * y[2] <= y[1] * x[2]
Zero == Rat(0, 1)
One == Rat(1, 1)

\* sum(scores)
RECURSIVE Sum(_)
Sum(s) == IF s = <<>> THEN Zero ELSE RatAdd(Head(s), Sum(Tail(s)))

\* A mean that forgets to divide by the number of scores.
MeanNoDivide(s) == Sum(s)

\* sum(scores) / len(scores)
Mean(s) == RatDivInt(Sum(s), Len(s))

\* [x for x, f in zip(s, flags) if f == want]
RECURSIVE Pick(_, _, _)
Pick(s, flags, want) ==
    IF s = <<>> THEN <<>>
    ELSE (IF Head(flags) = want THEN <<Head(s)>> ELSE <<>>)
         \o Pick(Tail(s), Tail(flags), want)

\* ----------------------------------------------------------------- scorers
\* The evaluation context: the mapping {"value": v} passed to every scorer.
Contexts == {1, 2}
ContextValue(c) == IF c = 1 THEN 5 ELSE 15

\* Scorer configurations: function scorers whose code returns 0.0, returns
\* 1.0, returns min(1.0, value / 10.0), or returns value / 10.0 unclamped.
Scorers == {"zero", "one", "clamped", "raw"}

\* The variant tag of a configuration: min(1.0, value / 10.0) is computed by
\* the script scorer, the others are function scorers.
ScorerType(s) == IF s = "clamped" THEN "script" ELSE "function"

\* LeafScorer.score(context): the pair (score, reason), or an error when the
\* code's result is outside [0, 1].
ScorerCall(s, c) ==
    LET v == CASE s = "zero" -> Zero
               [] s = "one" -> One
               [] s = "clamped" ->
                     IF ContextValue(c) >= 10 THEN One ELSE Rat(ContextValue(c), 10)
               [] OTHER -> Rat(ContextValue(c), 10)
    IN  IF RatLeq(Zero, v) /\ RatLeq(v, One)
        THEN [raises |-> FALSE, score |-> v,
              reason |-> [kind |-> "scorer", scorer |-> s, ctx |-> c,
                          own |-> v, kids |-> <<>>, n |-> 0]]
        ELSE [raises |-> TRUE, score |-> None,
              reason |-> [kind |-> "error", scorer |-> s, ctx |-> c,
                          own |-> None, kids |-> <<>>, n |-> 0]]

\* ------------------------------------------------------------ aggregation
\* The rules without the veto branch.
AggregateNoVeto(flags, all_scores) ==
    LET critical_scores == Pick(all_scores, flags, TRUE)
        non_critical_scores == Pick(all_scores, flags, FALSE)
    IN  IF critical_scores # <<>>
        THEN IF \A i \in 1 .. Len(critical_scores) : critical_scores[i] = One
             THEN IF non_critical_scores # <<>>
                  THEN Mean(non_critical_scores)
                  ELSE One
             ELSE Mean(all_scores)
        ELSE IF all_scores # <<>> THEN Mean(all_scores) ELSE Zero

\* The rules without the deference branch: critical scores are averaged in.
AggregateNoDeference(flags, all_scores) ==
    LET critical_scores == Pick(all_scores, flags, TRUE)
    IN  IF critical_scores # <<>>
        THEN IF \E i \in 1 .. Len(critical_scores) : critical_scores[i] = Zero
             THEN Zero
             ELSE Mean(all_scores)
        ELSE IF all_scores # <<>> THEN Mean(all_scores) ELSE Zero

\* The rules with the test of the last branch inverted: without critical
\* children the defensive 0.0 is returned for a non-empty list.
AggregateDefensiveZero(flags, all_scores) ==
    LET critical_scores == Pick(all_scores, flags, TRUE)
        non_critical_scores == Pick(all_scores, flags, FALSE)
    IN  IF critical_scores # <<>>
        THEN IF \E i \in 1 .. Len(critical_scores) : critical_scores[i] = Zero
             THEN Zero
             ELSE IF \A i \in 1 .. Len(critical_scores) : critical_scores[i] = One
                  THEN IF non_critical_scores # <<>>
                       THEN Mean(non_critical_scores)
                       ELSE One
                  ELSE Mean(all_scores)
        ELSE IF all_scores = <<>> THEN Mean(all_scores) ELSE Zero

\* The rules with a tolerant comparison: critical scores of at least one half
\* count as 1.
AggregateTolerant(flags, all_scores) ==
    LET critical_scores == Pick(all_scores, flags, TRUE)
        non_critical_scores == Pick(all_scores, flags, FALSE)
    IN  IF critical_scores # <<>>
        THEN IF \E i \in 1 .. Len(critical_scores) : critical_scores[i] = Zero
             THEN Zero
             ELSE IF \A i \in 1 .. Len(critical_scores) :
                         RatLeq(Rat(1, 2), critical_scores[i])
                  THEN IF non_critical_scores # <<>>
                       THEN Mean(non_critical_scores)
                       ELSE One
                  ELSE Mean(all_scores)
        ELSE IF all_scores # <<>> THEN Mean(all_scores) ELSE Zero

\* The scoring rules of compute_score, applied to the children's critical
\* flags and the scores their compute_score calls returned.
Aggregate(flags, all_scores) ==
    LET critical_scores == Pick(all_scores, flags, TRUE)
        non_critical_scores == Pick(all_scores, flags, FALSE)
    IN  IF critical_scores # <<>>
        THEN IF \E i \in 1 .. Len(critical_scores) : critical_scores[i] = Zero
             THEN Zero
             ELSE IF \A i \in 1 .. Len(critical_scores) : critical_scores[i] = One
                  THEN IF non_critical_scores # <<>>
                       THEN Mean(non_critical_scores)
                       ELSE One
                  ELSE Mean(all_scores)
        ELSE IF all_scores # <<>> THEN Mean(all_scores) ELSE Zero

Flags(n) == [i \in 1 .. Len(children[n]) |-> is_critical[children[n][i]]]

\* ---------------------------------------------------------- compute_score
\* Outcome of a call that threads the score and reason caches through; tr is
\* the list of leaves whose scorer the call invoked, in order of invocation.
Returned(v, sc, rs) ==
    [ok |-> TRUE, err |-> "", val |-> v, sc |-> sc, rs |-> rs, tr |-> <<>>]
Raised(e, sc, rs) ==
    [ok |-> FALSE, err |-> e, val |-> None, sc |-> sc, rs |-> rs, tr |-> <<>>]

RECURSIVE ComputeScore(_, _, _, _, _)
RECURSIVE ScoreChildren(_, _, _, _, _, _, _)

\* A child loop that swallows a child's exception and aggregates the rest.
ScoreChildrenSkipFailed(n, i, c, sc, rs, all_scores, fuel) ==
    IF i > Len(children[n])
    THEN Returned(all_scores, sc, rs)
    ELSE LET r == ComputeScore(children[n][i], c, sc, rs, fuel)
             rest == IF ~r.ok
                     THEN ScoreChildren(n, i + 1, c, r.sc, r.rs, all_scores, fuel)
                     ELSE ScoreChildren(n, i + 1, c, r.sc, r.rs,
                                        Append(all_scores, r.val), fuel)
         IN  [rest EXCEPT !.tr = r.tr \o @]

\* A child loop that stops after a critical child has scored 0.
ScoreChildrenShortCircuit(n, i, c, sc, rs, all_scores, fuel) ==
    IF i > Len(children[n])
    THEN Returned(all_scores, sc, rs)
    ELSE LET r == ComputeScore(children[n][i], c, sc, rs, fuel)
         IN  IF ~r.ok
             THEN r
             ELSE IF is_critical[children[n][i]] /\ r.val = Zero
             THEN [Returned(Append(all_scores, r.val), r.sc, r.rs) EXCEPT !.tr = r.tr]
             ELSE LET rest == ScoreChildren(n, i + 1, c, r.sc, r.rs,
                                            Append(all_scores, r.val), fuel)
                  IN  [rest EXCEPT !.tr = r.tr \o @]

\* for child in self.children: score = child.compute_score(**context);
\* all_scores.append(score).  An exception of a child leaves the loop with the
\* caches as the children evaluated so far set them.
ScoreChildren(n, i, c, sc, rs, all_scores, fuel) ==
    IF i > Len(children[n])
    THEN Returned(all_scores, sc, rs)
    ELSE LET r == ComputeScore(children[n][i], c, sc, rs, fuel)
         IN  IF ~r.ok
             THEN r
             ELSE LET rest == ScoreChildren(n, i + 1, c, r.sc, r.rs,
                                            Append(all_scores, r.val), fuel)
                  IN  [rest EXCEPT !.tr = r.tr \o @]

\* A compute_score that scores a leaf without a scorer 0.0 instead of raising.
ComputeScoreMissingZero(n, c, sc, rs, fuel) ==
    IF fuel = 0
    THEN Raised("RecursionError", sc, rs)
    ELSE IF Len(children[n]) = 0
    THEN IF scorer[n] = NoScorer
         THEN Returned(Zero, [sc EXCEPT ![n] = Zero], rs)
         ELSE LET out == ScorerCall(scorer[n], c)
              IN  IF out.raises
                  THEN [Raised("ScoringError", sc, rs) EXCEPT !.tr = <<n>>]
                  ELSE [Returned(out.score,
                                 [sc EXCEPT ![n] = out.score],
                                 [rs EXCEPT ![n] = <<out.reason>>])
                           EXCEPT !.tr = <<n>>]
    ELSE LET r == ScoreChildren(n, 1, c, sc, rs, <<>>, fuel - 1)
         IN  IF ~r.ok
             THEN r
             ELSE LET s == Aggregate(Flags(n), r.val)
                  IN  [Returned(s, [r.sc EXCEPT ![n] = s], r.rs) EXCEPT !.tr = r.tr]

\* RubricNode.compute_score(**context) on node n with caches sc, rs.
ComputeScore(n, c, sc, rs, fuel) ==
    IF fuel = 0
    THEN Raised("RecursionError", sc, rs)
    ELSE IF Len(children[n]) = 0
    THEN IF scorer[n] = NoScorer
         THEN Raised("ValueError", sc, rs)
         ELSE LET out == ScorerCall(scorer[n], c)
              IN  IF out.raises
                  THEN [Raised("ScoringError", sc, rs) EXCEPT !.tr = <<n>>]
                  ELSE [Returned(out.score,
                                 [sc EXCEPT ![n] = out.score],
                                 [rs EXCEPT ![n] = <<out.reason>>])
                           EXCEPT !.tr = <<n>>]
    ELSE LET r == ScoreChildren(n, 1, c, sc, rs, <<>>, fuel - 1)
         IN  IF ~r.ok
             THEN r
             ELSE LET s == Aggregate(Flags(n), r.val)
                  IN  [Returned(s, [r.sc EXCEPT ![n] = s], r.rs) EXCEPT !.tr = r.tr]

\* ----------------------------------------------------------- reset_scores
RECURSIVE ResetScores(_, _, _, _)
RECURSIVE ResetChildren(_, _, _, _, _)

\* A child loop that resets the first child only.
ResetChildrenFirstOnly(n, i, sc, rs, fuel) ==
    IF i > Len(children[n]) \/ i > 1
    THEN Returned(None, sc, rs)
    ELSE LET r == ResetScores(children[n][i], sc, rs, fuel)
         IN  IF ~r.ok THEN r ELSE ResetChildren(n, i + 1, r.sc, r.rs, fuel)

ResetChildren(n, i, sc, rs, fuel) ==
    IF i > Len(children[n])
    THEN Returned(None, sc, rs)
    ELSE LET r == ResetScores(children[n][i], sc, rs, fuel)
         IN  IF ~r.ok THEN r ELSE ResetChildren(n, i + 1, r.sc, r.rs, fuel)

\* A reset that clears the scores and leaves the cached reasons.
ResetScoresKeepReason(n, sc, rs, fuel) ==
    IF fuel = 0
    THEN Raised("RecursionError", sc, rs)
    ELSE ResetChildren(n, 1, [sc EXCEPT ![n] = None], rs, fuel - 1)

\* A reset that clears the receiver only and forgets its descendants.
ResetScoresShallow(n, sc, rs, fuel) ==
    Returned(None, [sc EXCEPT ![n] = None], [rs EXCEPT ![n] = None])

\* RubricNode.reset_scores() on node n.
ResetScores(n, sc, rs, fuel) ==
    IF fuel = 0
    THEN Raised("RecursionError", sc, rs)
    ELSE ResetChildren(n, 1, [sc EXCEPT ![n] = None], [rs EXCEPT ![n] = None], fuel - 1)

\* ----------------------------------------------------------------- reason
NoRequests == [n \in Ids |-> 0]

\* Outcome of a reason read: the reason cache and the explanation requests
\* issued per node are threaded through; wn counts, per node, the warnings the
\* read emitted, tr lists the nodes in the order their requests were issued.
ReasonReturned(v, rs, rq) ==
    [ok |-> TRUE, err |-> "", val |-> <<v>>, rs |-> rs, rq |-> rq,
     wn |-> NoRequests, tr |-> <<>>]
ReasonRaised(e, rs, rq) ==
    [ok |-> FALSE, err |-> e, val |-> None, rs |-> rs, rq |-> rq,
     wn |-> NoRequests, tr |-> <<>>]
\* The outcome r, preceded by the warnings and the requests of the outcome w.
After(w, r) == [r EXCEPT !.wn = [n \in Ids |-> w.wn[n] + @[n]], !.tr = w.tr \o @]
\* The outcome r of the explanation request of node n.
Requested(n, r) == [r EXCEPT !.tr = <<n>>]

\* "No reason available yet"
Placeholder == [kind |-> "placeholder", scorer |-> "", ctx |-> 0,
                own |-> None, kids |-> <<>>, n |-> 0]

\* RubricNode.score: the cached score, 0.0 while unset.
ScoreProperty(n) == IF score[n] # None THEN score[n] ELSE Zero

RECURSIVE ReasonProperty(_, _, _, _, _)
RECURSIVE ChildrenInfo(_, _, _, _, _, _)
RECURSIVE GenerateParentReason(_, _, _, _, _)

\* A collection of the children's scores that never reads their reasons.
ChildrenInfoNoReasons(n, i, rs, rq, llm, fuel) == ReasonReturned(Placeholder, rs, rq)

\* for child in self.children: child_info = {..., "score": child.score,
\* "reason": child.reason if child.reason else "No reason available"}.
\* child.reason is read for the test and, when truthy, once more.
ChildrenInfo(n, i, rs, rq, llm, fuel) ==
    IF i > Len(children[n])
    THEN ReasonReturned(Placeholder, rs, rq)
    ELSE LET r1 == ReasonProperty(children[n][i], rs, rq, llm, fuel)
         IN  IF ~r1.ok
             THEN r1
             ELSE LET r2 == ReasonProperty(children[n][i], r1.rs, r1.rq, llm, fuel)
                  IN  IF ~r2.ok THEN After(r1, r2)
                      ELSE After(r1, After(r2,
                               ChildrenInfo(n, i + 1, r2.rs, r2.rq, llm, fuel)))

\* The fallback text: f"Score {self._score:.2f} based on performance across
\* {len(self.children)}sub-criteria".
FallbackReason(n) ==
    [kind |-> "fallback", scorer |-> "", ctx |-> 0,
     own |-> score[n], kids |-> <<>>, n |-> Len(children[n])]

\* A synthesis without the except clause: a failed request propagates.
GenerateParentReasonNoCatch(n, rs, rq, llm, fuel) ==
    LET info == ChildrenInfo(n, 1, rs, rq, llm, fuel)
    IN  IF ~info.ok
        THEN info
        ELSE IF score[n] = None
        THEN After(info, ReasonRaised("TypeError", info.rs, info.rq))
        ELSE LET issued == [info.rq EXCEPT ![n] = @ + 1]
             IN  IF llm[n]
                 THEN After(info, Requested(n, ReasonReturned(
                          [kind |-> "llm", scorer |-> "", ctx |-> 0, own |-> score[n],
                           kids |-> [j \in 1 .. Len(children[n]) |->
                                        ScoreProperty(children[n][j])],
                           n |-> Len(children[n])],
                          info.rs, issued)))
                 ELSE After(info, Requested(n, ReasonRaised("Exception", info.rs, issued)))

\* RubricNode._generate_parent_reason(): collects the children's scores and
\* reasons, formats the prompt (which fails on an unset _score), then issues
\* one explanation request; llm[n] tells whether that request succeeds.  A
\* failed request is caught: a warning is emitted and the fallback returned.
GenerateParentReason(n, rs, rq, llm, fuel) ==
    LET info == ChildrenInfo(n, 1, rs, rq, llm, fuel)
    IN  IF ~info.ok
        THEN info
        ELSE IF score[n] = None
        THEN After(info, ReasonRaised("TypeError", info.rs, info.rq))
        ELSE LET issued == [info.rq EXCEPT ![n] = @ + 1]
             IN  IF llm[n]
                 THEN After(info, Requested(n, ReasonReturned(
                          [kind |-> "llm", scorer |-> "", ctx |-> 0, own |-> score[n],
                           kids |-> [j \in 1 .. Len(children[n]) |->
                                        ScoreProperty(children[n][j])],
                           n |-> Len(children[n])],
                          info.rs, issued)))
                 ELSE After([info EXCEPT !.wn[n] = @ + 1],
                            Requested(n, ReasonReturned(FallbackReason(n),
                                                        info.rs, issued)))

\* A reason property that synthesizes on every read of a parent.
ReasonPropertyUncached(n, rs, rq, llm, fuel) ==
    IF fuel = 0
    THEN ReasonRaised("RecursionError", rs, rq)
    ELSE IF Len(children[n]) # 0
    THEN LET g == GenerateParentReason(n, rs, rq, llm, fuel - 1)
         IN  IF ~g.ok
             THEN g
             ELSE After(g, ReasonReturned(g.val[1], [g.rs EXCEPT ![n] = g.val], g.rq))
    ELSE ReasonReturned(IF rs[n] # None THEN rs[n][1] ELSE Placeholder, rs, rq)

\* RubricNode.reason (property getter) on node n.
ReasonProperty(n, rs, rq, llm, fuel) ==
    IF fuel = 0
    THEN ReasonRaised("RecursionError", rs, rq)
    ELSE IF rs[n] = None /\ Len(children[n]) # 0
    THEN LET g == GenerateParentReason(n, rs, rq, llm, fuel - 1)
         IN  IF ~g.ok
             THEN g
             ELSE After(g, ReasonReturned(g.val[1], [g.rs EXCEPT ![n] = g.val], g.rq))
    ELSE ReasonReturned(IF rs[n] # None THEN rs[n][1] ELSE Placeholder, rs, rq)

\* ------------------------------------------------------------- RubricTree
\* The tree's root node.
Root == 1

\* RubricTree.evaluate(context): reset every cached score and reason of the
\* tree, then evaluate the root.
TreeEvaluate(c, sc, rs) ==
    LET z == ResetScores(Root, sc, rs, RecursionLimit)
    IN  IF ~z.ok THEN z ELSE ComputeScore(Root, c, z.sc, z.rs, RecursionLimit)

\* ---------------------------------------------------------------- actions
Call(op, n, c, r, rq) ==
    [op |-> op, node |-> n, ctx |-> c, ok |-> r.ok, err |-> r.err, val |-> r.val,
     rq |-> rq, stale |-> FALSE, tr |-> <<>>, wn |-> NoRequests]

\* What an evaluation of the freshly reset tree produced: whether it returned,
\* the score returned, and the score left on every node.
Outcome(r) == [ok |-> r.ok, val |-> r.val, sc |-> r.sc]

\* Per context: the outcomes seen, and whether it was evaluated more than once.
NoHistory == [c \in Contexts |-> [outs |-> {}, again |-> FALSE]]
Record(c, r) ==
    [hist EXCEPT ![c] = [outs |-> @.outs \cup {Outcome(r)},
                         again |-> @.again \/ @.outs # {}]]

\* node.compute_score(**context)
ComputeScoreCall(n, c) ==
    /\ n \in alive
    /\ LET r == ComputeScore(n, c, score, reason, RecursionLimit)
       IN  /\ score' = r.sc
           /\ reason' = r.rs
           /\ ret' = [Call("compute_score", n, c, r, NoRequests) EXCEPT !.tr = r.tr]
    /\ UNCHANGED <<shape, files>>

\* Before the evaluation that produced r, the root held another score than r
\* gives it and some parent held a cached reason.
Stale(r) ==
    /\ score[Root] # None
    /\ score[Root] # r.sc[Root]
    /\ \E p \in alive : Len(children[p]) > 0 /\ reason[p] # None

\* tree.evaluate(context)
EvaluateCall(c) ==
    /\ Root \in alive
    /\ LET r == TreeEvaluate(c, score, reason)
       IN  /\ score' = r.sc
           /\ reason' = r.rs
           /\ ret' = [Call("evaluate", Root, c, r, NoRequests)
                         EXCEPT !.stale = Stale(r), !.tr = r.tr]
    /\ UNCHANGED <<shape, files>>

\* node.reason; llm tells, per node, whether its explanation request succeeds
ReadReasonCall(n, llm) ==
    /\ n \in alive
    /\ LET r == ReasonProperty(n, reason, NoRequests, llm, RecursionLimit)
       IN  /\ reason' = r.rs
           /\ ret' = [Call("reason", n, 0, r, r.rq) EXCEPT !.wn = r.wn, !.tr = r.tr]
    /\ UNCHANGED <<shape, score, files>>

\* node.reset_scores()
ResetScoresCall(n) ==
    /\ n \in alive
    /\ LET r == ResetScores(n, score, reason, RecursionLimit)
       IN  /\ score' = r.sc
           /\ reason' = r.rs
           /\ ret' = Call("reset_scores", n, 0, r, NoRequests)
    /\ UNCHANGED <<shape, files>>

\* ------------------------------------------------------------------- Init
RECURSIVE SortedSeq(_)
SortedSeq(S) ==
    IF S = {} THEN <<>>
    ELSE LET m == CHOOSE x \in S : \A y \in S : x <= y
         IN  <<m>> \o SortedSeq(S \ {m})

NoCall == [op |-> "init", node |-> 0, ctx |-> 0, ok |-> TRUE, err |-> "",
           val |-> None, rq |-> NoRequests, stale |-> FALSE,
     tr |-> <<>>, wn |-> NoRequests]

\* The tree of k nodes in which node 1 is the root and every other node i was
\* passed in the children list of the earlier node par[i]; leaves carry a
\* scorer, nothing is scored yet.
TreeInit(k, par, crit, sco) ==
    /\ alive = 1 .. k
    /\ name = [n \in Ids |-> IF n <= k THEN "a" ELSE ""]
    /\ is_critical = [n \in Ids |-> IF n \in 2 .. k THEN crit[n] ELSE FALSE]
    /\ children = [n \in Ids |-> SortedSeq({i \in 2 .. k : par[i] = n})]
    /\ scorer = [n \in Ids |->
                    IF n <= k /\ {i \in 2 .. k : par[i] = n} = {} THEN sco[n] ELSE NoScorer]
    /\ score = [n \in Ids |-> None]
    /\ reason = [n \in Ids |-> None]
    /\ ret = NoCall
    /\ hist = NoHistory
    /\ files = {}

\* Every tree of at most kmax nodes whose leaves use the scorers of S.
Trees(kmax, S) ==
    \E k \in 1 .. kmax :
        \E par \in [2 .. k -> 1 .. k] :
            /\ \A i \in 2 .. k : par[i] < i
            /\ \E crit \in [2 .. k -> BOOLEAN] :
                   \E sco \in [1 .. k -> S] :
                       /\ \A n \in 1 .. k :
                              (\E i \in 2 .. k : par[i] = n)
                                  => sco[n] = CHOOSE s \in S : TRUE
                       /\ TreeInit(k, par, crit, sco)

\* ------------------------------------------------- Spec: scoring a tree
Init == Trees(MaxNodes, {"zero", "one", "raw"})

DoComputeScore(n, c) == ComputeScoreCall(n, c) /\ UNCHANGED hist
DoEvaluate(c) == EvaluateCall(c) /\ UNCHANGED hist
DoResetScores(n) == ResetScoresCall(n) /\ UNCHANGED hist

Next ==
    \/ \E n \in Ids, c \in Contexts : DoComputeScore(n, c)
    \/ \E c \in Contexts : DoEvaluate(c)
    \/ \E n \in Ids : DoResetScores(n)

Spec == Init /\ [][Next]_vars

\* ------------------------------------ SpecIdem: repeated evaluations
\* hist records what every evaluation of the freshly reset tree produced:
\* tree.evaluate(context), and root.compute_score(context) called right after
\* root.reset_scores().
InitIdem == Trees(MaxNodes, {"clamped", "raw"})

IdemComputeScore(n, c) ==
    /\ ComputeScoreCall(n, c)
    /\ hist' = IF n = Root /\ ret.op = "reset_scores" /\ ret.node = Root /\ ret.ok
               THEN Record(c, [ok |-> ret'.ok, val |-> ret'.val, sc |-> score'])
               ELSE hist

IdemEvaluate(c) ==
    /\ EvaluateCall(c)
    /\ hist' = Record(c, [ok |-> ret'.ok, val |-> ret'.val, sc |-> score'])

IdemResetScores == ResetScoresCall(Root) /\ UNCHANGED hist

NextIdem ==
    \/ \E n \in Ids, c \in Contexts : IdemComputeScore(n, c)
    \/ \E c \in Contexts : IdemEvaluate(c)
    \/ IdemResetScores

SpecIdem == InitIdem /\ [][NextIdem]_vars

\* ------------------------------------------ SpecReason: reading reasons
InitReason == Trees(MaxReasonNodes, {"clamped", "raw"})

\* Whether the explanation request of each parent succeeds; nodes that never
\* issue one are fixed.
Oracles == {llm \in [Ids -> BOOLEAN] : \A n \in Ids : llm[n] \/ Len(children[n]) > 0}

\* The tree is evaluated and reset through its root; the reason of any node
\* is read.
ReasonComputeScore(c) == ComputeScoreCall(Root, c) /\ UNCHANGED hist
ReasonEvaluate(c) == EvaluateCall(c) /\ UNCHANGED hist
ReasonRead(n, llm) == ReadReasonCall(n, llm) /\ UNCHANGED hist
ReasonResetScores == ResetScoresCall(Root) /\ UNCHANGED hist

NextReason ==
    \/ \E c \in Contexts : ReasonComputeScore(c)
    \/ \E c \in Contexts : ReasonEvaluate(c)
    \/ \E n \in Ids, llm \in Oracles : ReasonRead(n, llm)
    \/ ReasonResetScores

SpecReason == InitReason /\ [][NextReason]_vars

\* ---------------------------------------------------------- serialization
\* scorer.to_dict(): the tagged mapping {type, ...fields}.
ScorerToDict(s) == [type |-> ScorerType(s), config |-> s]

\* A factory that builds a function scorer whatever the tag.
ScorerFromDictUntagged(d) ==
    [ok |-> TRUE, scorer |-> <<"function", d.config>>]

\* LeafScorer.from_dict = create_scorer_from_dict: dispatch on the tag to the
\* variant's from_dict.  The scorer built is <<variant, configuration>>.
ScorerFromDict(d) ==
    IF d.type = "script" THEN [ok |-> TRUE, scorer |-> <<"script", d.config>>]
    ELSE IF d.type = "llm" THEN [ok |-> TRUE, scorer |-> <<"llm", d.config>>]
    ELSE IF d.type = "function" THEN [ok |-> TRUE, scorer |-> <<"function", d.config>>]
    ELSE [ok |-> FALSE, scorer |-> <<>>]

\* node.to_dict(): name (with description and metadata), is_critical, then
\* "scorer" for a leaf that has one and "children" otherwise, and "score" when
\* a score is cached.
RECURSIVE ToDict(_)
ToDict(n) ==
    LET base == [name |-> name[n], is_critical |-> is_critical[n]]
        body == IF Len(children[n]) = 0 /\ scorer[n] # NoScorer
                THEN base @@ [scorer |-> ScorerToDict(scorer[n])]
                ELSE base @@ [children |->
                                 [i \in 1 .. Len(children[n]) |-> ToDict(children[n][i])]]
    IN  IF score[n] # None THEN body @@ [score |-> score[n]] ELSE body

\* A node object outside the heap: the value of its fields, or the error its
\* construction raised.
NodeValue(nm, crit, kids, s) ==
    [ok |-> TRUE, err |-> "", name |-> nm, is_critical |-> crit,
     children |-> kids, scorer |-> s, score |-> None, reason |-> None]
NodeError(e) ==
    [ok |-> FALSE, err |-> e, name |-> "", is_critical |-> FALSE,
     children |-> <<>>, scorer |-> <<>>, score |-> None, reason |-> None]

\* cls(name=..., is_critical=..., children=..., scorer=...) with __post_init__
ConstructValue(nm, crit, kids, s) ==
    IF (kids # <<>> /\ s # <<>>) \/ (kids = <<>> /\ s = <<>>)
    THEN NodeError("ValueError")
    ELSE NodeValue(nm, crit, kids, s)

\* A from_dict that restores the cached score found in the mapping.
RECURSIVE FromDict(_)
FromDictKeepScore(d) ==
    IF "scorer" \in DOMAIN d
    THEN LET s == ScorerFromDict(d.scorer)
         IN  IF ~s.ok THEN NodeError("ValueError")
             ELSE [ConstructValue(d.name, d.is_critical, <<>>, s.scorer)
                      EXCEPT !.score = IF "score" \in DOMAIN d THEN d.score ELSE None]
    ELSE IF "children" \in DOMAIN d
    THEN LET kids == [i \in 1 .. Len(d.children) |-> FromDict(d.children[i])]
         IN  IF \E i \in 1 .. Len(kids) : ~kids[i].ok
             THEN LET i == CHOOSE j \in 1 .. Len(kids) :
                               ~kids[j].ok /\ \A m \in 1 .. j - 1 : kids[m].ok
                  IN  kids[i]
             ELSE ConstructValue(d.name, d.is_critical, kids, <<>>)
    ELSE NodeError("ValueError")

\* RubricNode.from_dict(data): a leaf when the mapping has "scorer", a parent
\* built from the restored children when it has "children"; "score" is not
\* read.  The first child that fails to restore fails the whole call.
FromDict(d) ==
    IF "scorer" \in DOMAIN d
    THEN LET s == ScorerFromDict(d.scorer)
         IN  IF ~s.ok THEN NodeError("ValueError")
             ELSE ConstructValue(d.name, d.is_critical, <<>>, s.scorer)
    ELSE IF "children" \in DOMAIN d
    THEN LET kids == [i \in 1 .. Len(d.children) |-> FromDict(d.children[i])]
         IN  IF \E i \in 1 .. Len(kids) : ~kids[i].ok
             THEN LET i == CHOOSE j \in 1 .. Len(kids) :
                               ~kids[j].ok /\ \A m \in 1 .. j - 1 : kids[m].ok
                  IN  kids[i]
             ELSE ConstructValue(d.name, d.is_critical, kids, <<>>)
    ELSE NodeError("ValueError")

\* -------------------- SpecTree: serialization, validation, statistics
InitTree == Trees(MaxNodes, {"zero", "clamped"})

TreeComputeScore(c) == ComputeScoreCall(Root, c) /\ UNCHANGED hist

\* leaf_node.scorer = None, assigned directly to the attribute
ClearScorer(n) ==
    /\ n \in alive
    /\ Len(children[n]) = 0
    /\ scorer[n] # NoScorer
    /\ scorer' = [scorer EXCEPT ![n] = NoScorer]
    /\ ret' = [op |-> "clear_scorer", node |-> n, ctx |-> 0, ok |-> TRUE, err |-> "",
               val |-> None, rq |-> NoRequests, stale |-> FALSE,
               tr |-> <<>>, wn |-> NoRequests]
    /\ UNCHANGED <<alive, name, is_critical, children, score, reason, hist, files>>

\* RubricNode.from_dict(tree.root.to_dict())
RoundTrip ==
    /\ Root \in alive
    /\ LET v == FromDict(ToDict(Root))
       IN  ret' = [op |-> "round_trip", node |-> Root, ctx |-> 0, ok |-> v.ok,
                   err |-> v.err, val |-> <<v>>, rq |-> NoRequests, stale |-> FALSE,
                   tr |-> <<>>, wn |-> NoRequests]
    /\ UNCHANGED <<shape, score, reason, hist, files>>

\* RubricTree.validate(): a traversal from the root, parents before their
\* children and children in list order, that collects one message for every
\* leaf without a scorer and every parent without children.
RECURSIVE TreeValidate(_)
RECURSIVE ValidateChildren(_, _)
ValidateChildren(n, i) ==
    IF i > Len(children[n]) THEN <<>>
    ELSE TreeValidate(children[n][i]) \o ValidateChildren(n, i + 1)
TreeValidate(n) ==
    (IF IsLeaf(n) /\ scorer[n] = NoScorer
     THEN <<[kind |-> "no scorer", node |-> n]>> ELSE <<>>)
    \o (IF IsParent(n) /\ children[n] = <<>>
        THEN <<[kind |-> "no children", node |-> n]>> ELSE <<>>)
    \o ValidateChildren(n, 1)

\* RubricTree.statistics(): one traversal counting the nodes, the leaves and
\* the parents, and taking the largest depth, the root being at depth 0.
RECURSIVE TreeStatistics(_, _)
RECURSIVE StatisticsChildren(_, _, _, _)
StatisticsChildren(n, i, depth, acc) ==
    IF i > Len(children[n]) THEN acc
    ELSE LET s == TreeStatistics(children[n][i], depth + 1)
         IN  StatisticsChildren(n, i + 1, depth,
                 [total_nodes |-> acc.total_nodes + s.total_nodes,
                  leaf_nodes |-> acc.leaf_nodes + s.leaf_nodes,
                  parent_nodes |-> acc.parent_nodes + s.parent_nodes,
                  max_depth |-> MaxOf(acc.max_depth, s.max_depth)])
TreeStatistics(n, depth) ==
    StatisticsChildren(n, 1, depth,
        [total_nodes |-> 1,
         leaf_nodes |-> IF IsLeaf(n) THEN 1 ELSE 0,
         parent_nodes |-> IF IsParent(n) THEN 1 ELSE 0,
         max_depth |-> depth])

\* tree.validate()
Validate ==
    /\ Root \in alive
    /\ ret' = [op |-> "validate", node |-> Root, ctx |-> 0, ok |-> TRUE, err |-> "",
               val |-> <<TreeValidate(Root)>>, rq |-> NoRequests, stale |-> FALSE,
               tr |-> <<>>, wn |-> NoRequests]
    /\ UNCHANGED <<shape, score, reason, hist, files>>

\* tree.statistics()
Statistics ==
    /\ Root \in alive
    /\ ret' = [op |-> "statistics", node |-> Root, ctx |-> 0, ok |-> TRUE, err |-> "",
               val |-> <<TreeStatistics(Root, 0)>>, rq |-> NoRequests, stale |-> FALSE,
               tr |-> <<>>, wn |-> NoRequests]
    /\ UNCHANGED <<shape, score, reason, hist, files>>

NextTree ==
    \/ \E c \in Contexts : TreeComputeScore(c)
    \/ \E n \in Ids : ClearScorer(n)
    \/ RoundTrip
    \/ Validate
    \/ Statistics

SpecTree == InitTree /\ [][NextTree]_vars

\* ------------------------------------------------------------ ScriptScorer
\* The characters a script writes to its standard output.
Chars == {"0", "1", "5", "7", ".", "-", "\n"}
Outputs == UNION {[1 .. k -> Chars] : k \in 0 .. MaxOut}

IsDigit(ch) == ch \in {"0", "1", "5", "7"}
DigitVal(ch) == IF ch = "0" THEN 0 ELSE IF ch = "1" THEN 1 ELSE IF ch = "5" THEN 5 ELSE 7

\* str.strip(): leading and trailing whitespace removed.
RECURSIVE LStrip(_)
LStrip(s) == IF s # <<>> /\ Head(s) = "\n" THEN LStrip(Tail(s)) ELSE s
RECURSIVE RStrip(_)
RStrip(s) ==
    IF s # <<>> /\ s[Len(s)] = "\n" THEN RStrip(SubSeq(s, 1, Len(s) - 1)) ELSE s
Strip(s) == RStrip(LStrip(s))

\* The integer written by a string of digits, and ten to the power k.
RECURSIVE IntOf(_)
IntOf(s) == IF s = <<>> THEN 0 ELSE IntOf(SubSeq(s, 1, Len(s) - 1)) * 10 + DigitVal(s[Len(s)])
RECURSIVE Pow10(_)
Pow10(k) == IF k = 0 THEN 1 ELSE 10 * Pow10(k - 1)

\* float(text): an optional sign, then digits with at most one decimal point
\* and at least one digit; anything else raises ValueError.
ParseFloat(text) ==
    LET neg == text # <<>> /\ Head(text) = "-"
        u == IF neg THEN Tail(text) ELSE text
        dots == {i \in 1 .. Len(u) : u[i] = "."}
        wellformed == /\ Cardinality(dots) <= 1
                      /\ \A i \in 1 .. Len(u) : i \in dots \/ IsDigit(u[i])
                      /\ \E i \in 1 .. Len(u) : IsDigit(u[i])
    IN  IF ~wellformed
        THEN [ok |-> FALSE, val |-> None]
        ELSE LET d == IF dots = {} THEN Len(u) + 1 ELSE CHOOSE i \in dots : TRUE
                 whole == SubSeq(u, 1, d - 1)
                 frac == SubSeq(u, d + 1, Len(u))
                 num == IntOf(whole) * Pow10(Len(frac)) + IntOf(frac)
             IN  [ok |-> TRUE,
                  val |-> Rat(IF neg THEN 0 - num ELSE num, Pow10(Len(frac)))]

\* A script body, by what it is and does: a str or a value that the file's
\* write() rejects; the seconds it runs, its exit code and its standard
\* output.  A script that fails or runs long prints nothing or 0.5.
ScriptsOver(O) ==
    {b \in [is_str : BOOLEAN, elapsed : {0, 20}, returncode : {0, 1}, stdout : O] :
        /\ (b.elapsed > 0 \/ b.returncode # 0) => b.stdout \in {<<>>, <<"0", ".", "5">>}
        /\ ~b.is_str => b.elapsed = 0 /\ b.returncode = 0 /\ b.stdout = <<>>}
Scripts == ScriptsOver(Outputs)

\* The configurations of a script scorer: body, language, timeout in seconds.
ScriptScorers ==
    [script_content : Scripts, script_language : {"python", "bash", "ruby"},
     timeout : {10, 30}]

\* ScriptScorer._get_script_extension
ScriptExtension(lang) ==
    IF lang = "python" THEN ".py"
    ELSE IF lang = "bash" THEN ".sh"
    ELSE IF lang \in {"javascript", "node"} THEN ".js"
    ELSE ".txt"
\* ScriptScorer._get_execution_command finds a command for the language
Supported(lang) == lang \in {"python", "bash", "javascript", "node"}

\* The code between try and finally (scorer.py:74-94): the outcome of the
\* command lookup, the subprocess and the parse of its output.
ScriptTry(cfg) ==
    LET run == cfg.script_content
    IN  IF ~Supported(cfg.script_language)
        THEN [ok |-> FALSE, err |-> "ValueError", val |-> None]
        ELSE IF run.elapsed > cfg.timeout
        THEN [ok |-> FALSE, err |-> "TimeoutExpired", val |-> None]
        ELSE IF run.returncode # 0
        THEN [ok |-> FALSE, err |-> "ValueError", val |-> None]
        ELSE LET p == ParseFloat(Strip(run.stdout))
             IN  IF p.ok /\ RatLeq(Zero, p.val) /\ RatLeq(p.val, One)
                 THEN [ok |-> TRUE, err |-> "", val |-> p.val]
                 ELSE [ok |-> FALSE, err |-> "ValueError", val |-> None]

\* ScriptScorer.score(context) with the temporary files fs on disk: the file
\* is created by NamedTemporaryFile(delete=False) and written inside the with
\* block; the try ... finally that unlinks it starts after the with block.
ScriptScorerScore(cfg, fs) ==
    LET script_path == <<CHOOSE i \in 1 .. Cardinality(fs) + 1 :
                             \A f \in fs : f[1] # i,
                         ScriptExtension(cfg.script_language)>>
        created == fs \cup {script_path}
    IN  IF ~cfg.script_content.is_str
        THEN [ok |-> FALSE, err |-> "TypeError", val |-> None, files |-> created]
        ELSE LET t == ScriptTry(cfg)
             IN  [ok |-> t.ok, err |-> t.err, val |-> t.val,
                  files |-> created \ {script_path}]

\* --------------------------------------- SpecScript: script scorer calls
\* One leaf whose scorer is a script scorer.
InitScript ==
    /\ alive = {Root}
    /\ name = [n \in Ids |-> IF n = Root THEN "a" ELSE ""]
    /\ is_critical = [n \in Ids |-> FALSE]
    /\ children = [n \in Ids |-> <<>>]
    /\ \E cfg \in ScriptScorers :
           scorer = [n \in Ids |-> IF n = Root THEN <<cfg>> ELSE None]
    /\ score = [n \in Ids |-> None]
    /\ reason = [n \in Ids |-> None]
    /\ ret = NoCall
    /\ hist = NoHistory
    /\ files = {}

\* root.scorer.score(context)
ScriptScore ==
    /\ Cardinality(files) < MaxFiles
    /\ LET r == ScriptScorerScore(scorer[Root][1], files)
       IN  /\ files' = r.files
           /\ ret' = [op |-> "script_score", node |-> Root, ctx |-> 0, ok |-> r.ok,
                      err |-> r.err, val |-> r.val, rq |-> NoRequests,
                      stale |-> FALSE, tr |-> <<>>, wn |-> NoRequests]
    /\ UNCHANGED <<shape, score, reason, hist>>

NextScript == ScriptScore

SpecScript == InitScript /\ [][NextScript]_vars

\* ---------------------------------------------------------- FunctionScorer
\* The value of a Python expression: its type and, for a number, its value
\* (<<0, 0>> is nan; True is the bool 1, False the bool 0).
NaN == <<0, 0>>
PyValue(t, v) == [type |-> t, val |-> v]
PyNone == PyValue("NoneType", None)
PyValues ==
    {PyValue("float", v) : v \in {Zero, Rat(1, 2), One, Rat(3, 2), Rat(0 - 1, 2), NaN}}
        \cup {PyValue("int", v) : v \in {Zero, One, Rat(2, 1)}}
        \cup {PyValue("bool", v) : v \in {Zero, One}}
        \cup {PyValue("str", None), PyNone}

\* What the entry point does when called with the context: return a value,
\* return context["value"] / 10, return the number of times the module code
\* ran in the namespace it sees, divided by 2, or raise.
Bodies ==
    {[does |-> "return", value |-> v, raises |-> ""] : v \in PyValues}
        \cup {[does |-> d, value |-> PyNone, raises |-> ""] : d \in {"scaled", "count"}}
        \cup {[does |-> "raise", value |-> PyNone, raises |-> e] :
                 e \in {"KeyError", "SystemExit"}}

\* A function source, by what it does: whether it compiles, what running the
\* module code raises, the name it defines and what that function does.
FunctionCodes ==
    {f \in [compiles : BOOLEAN, at_exec : {"", "KeyError", "SystemExit"},
            defines : {"score_function", "helper"}, body : Bodies] :
        (~f.compiles \/ f.at_exec # "")
            => /\ f.defines = "score_function"
               /\ f.body = [does |-> "return", value |-> PyNone, raises |-> ""]
               /\ ~f.compiles => f.at_exec = ""}

\* The configurations of a function scorer: source and entry-point name.
FunctionScorers ==
    [function_code : FunctionCodes, function_name : {"score_function", "helper"}]

\* The exception classes caught by "except Exception": SystemExit derives from
\* BaseException only.
IsException(e) == e \notin {"SystemExit", "KeyboardInterrupt", "GeneratorExit"}

\* exec(self.function_code, namespace): the namespace after the module code
\* ran in namespace ns, or the exception it raised.  The module code counts
\* its runs in the name "runs" of the namespace.
Exec(code, ns) ==
    IF ~code.compiles THEN [ok |-> FALSE, err |-> "SyntaxError", ns |-> ns]
    ELSE IF code.at_exec # "" THEN [ok |-> FALSE, err |-> code.at_exec, ns |-> ns]
    ELSE [ok |-> TRUE, err |-> "",
          ns |-> [names |-> ns.names \cup {code.defines}, runs |-> ns.runs + 1]]

\* score_func(context)
CallBody(body, ns, c) ==
    IF body.does = "raise" THEN [ok |-> FALSE, err |-> body.raises, val |-> PyNone]
    ELSE IF body.does = "scaled"
    THEN [ok |-> TRUE, err |-> "", val |-> PyValue("float", Rat(ContextValue(c), 10))]
    ELSE IF body.does = "count"
    THEN [ok |-> TRUE, err |-> "", val |-> PyValue("float", Rat(ns.runs, 2))]
    ELSE [ok |-> TRUE, err |-> "", val |-> body.value]

\* The statements of the try block (scorer.py:285-307), started with the
\* namespace ns: the score returned or the exception raised.
FunctionTry(cfg, c, ns) ==
    LET x == Exec(cfg.function_code, ns)
    IN  IF ~x.ok THEN [ok |-> FALSE, err |-> x.err, val |-> None]
        ELSE IF cfg.function_name \notin x.ns.names
        THEN [ok |-> FALSE, err |-> "ValueError", val |-> None]
        ELSE LET r == CallBody(cfg.function_code.body, x.ns, c)
             IN  IF ~r.ok THEN [ok |-> FALSE, err |-> r.err, val |-> None]
                 ELSE IF r.val.type \notin {"int", "float", "bool"}
                 THEN [ok |-> FALSE, err |-> "ValueError", val |-> None]
                 ELSE IF r.val.val = NaN
                         \/ ~(RatLeq(Zero, r.val.val) /\ RatLeq(r.val.val, One))
                 THEN [ok |-> FALSE, err |-> "ValueError", val |-> None]
                 ELSE [ok |-> TRUE, err |-> "", val |-> r.val.val]

EmptyNamespace == [names |-> {}, runs |-> 0]

\* FunctionScorer.score(context): the try block started with namespace = {};
\* "except Exception" turns what it catches into ValueError.
FunctionScorerScore(cfg, c) ==
    LET t == FunctionTry(cfg, c, EmptyNamespace)
    IN  IF ~t.ok /\ IsException(t.err)
        THEN [ok |-> FALSE, err |-> "ValueError", val |-> None]
        ELSE t

\* ------------------------------ SpecFunction: function scorer calls
\* One leaf whose scorer is a function scorer; hist records the outcomes of
\* its calls per context.
InitFunction ==
    /\ alive = {Root}
    /\ name = [n \in Ids |-> IF n = Root THEN "a" ELSE ""]
    /\ is_critical = [n \in Ids |-> FALSE]
    /\ children = [n \in Ids |-> <<>>]
    /\ \E cfg \in FunctionScorers :
           scorer = [n \in Ids |-> IF n = Root THEN <<cfg>> ELSE None]
    /\ score = [n \in Ids |-> None]
    /\ reason = [n \in Ids |-> None]
    /\ ret = NoCall
    /\ hist = NoHistory
    /\ files = {}

\* root.scorer.score(context)
FunctionScore(c) ==
    /\ LET r == FunctionScorerScore(scorer[Root][1], c)
       IN  /\ ret' = [op |-> "function_score", node |-> Root, ctx |-> c, ok |-> r.ok,
                      err |-> r.err, val |-> r.val, rq |-> NoRequests,
                      stale |-> FALSE, tr |-> <<>>, wn |-> NoRequests]
           /\ hist' = Record(c, [ok |-> r.ok, val |-> r.val, sc |-> score])
    /\ UNCHANGED <<shape, score, reason, files>>

NextFunction == \E c \in Contexts : FunctionScore(c)

SpecFunction == InitFunction /\ [][NextFunction]_vars

\* --------------------------------------------------------------- LLMScorer
\* The characters of a completion; "S" stands for the word "score" in any
\* case.
RespChars == {"0", "1", "7", ".", "/", ":", "S"}
Responses == UNION {[1 .. k -> RespChars] : k \in 0 .. MaxResp}

\* \w of the regular expressions: a letter or a digit.
IsWord(s, i) == i \in 1 .. Len(s) /\ (IsDigit(s[i]) \/ s[i] = "S")
\* \b between the characters i - 1 and i of s.
Boundary(s, i) == IsWord(s, i - 1) # IsWord(s, i)
\* The length of the longest run of characters of the set D starting at i.
RECURSIVE RunLen(_, _, _)
RunLen(s, i, D) == IF i <= Len(s) /\ s[i] \in D THEN 1 + RunLen(s, i + 1, D) ELSE 0
Digits == {ch \in RespChars : IsDigit(ch)}
At(s, i) == IF i \in 1 .. Len(s) THEN s[i] ELSE ""

\* The text r"\b(0\.\d+|1\.0+|0|1)\b" matches at position i of s, as <<text>>,
\* or <<>>: the alternatives in order, the greedy repetition giving back
\* characters until the closing \b holds.
MatchUnit(s, i) ==
    IF ~Boundary(s, i) THEN <<>>
    ELSE LET d == RunLen(s, i + 2, Digits)
             z == RunLen(s, i + 2, {"0"})
         IN  IF At(s, i) = "0" /\ At(s, i + 1) = "."
                /\ \E k \in 1 .. d : Boundary(s, i + 2 + k)
             THEN LET k == CHOOSE k \in 1 .. d :
                               /\ Boundary(s, i + 2 + k)
                               /\ \A m \in k + 1 .. d : ~Boundary(s, i + 2 + m)
                  IN  <<SubSeq(s, i, i + 1 + k)>>
             ELSE IF At(s, i) = "1" /\ At(s, i + 1) = "."
                     /\ \E k \in 1 .. z : Boundary(s, i + 2 + k)
             THEN LET k == CHOOSE k \in 1 .. z :
                               /\ Boundary(s, i + 2 + k)
                               /\ \A m \in k + 1 .. z : ~Boundary(s, i + 2 + m)
                  IN  <<SubSeq(s, i, i + 1 + k)>>
             ELSE IF At(s, i) \in {"0", "1"} /\ Boundary(s, i + 1)
             THEN <<SubSeq(s, i, i)>>
             ELSE <<>>

\* The text r"([0-9]*\.?[0-9]+)" matches at position j of s: all digits, a
\* point and the digits after it; without digits after a point, the digits
\* before it.
MatchNumber(s, j) ==
    LET a == RunLen(s, j, Digits)
        b == IF At(s, j + a) = "." THEN RunLen(s, j + a + 1, Digits) ELSE 0
    IN  IF b >= 1 THEN <<SubSeq(s, j, j + a + b)>>
        ELSE IF a >= 1 THEN <<SubSeq(s, j, j + a - 1)>>
        ELSE <<>>

\* r"score[:\s]*([0-9]*\.?[0-9]+)" at position i of s: the group, or <<>>.
MatchScore(s, i) ==
    IF At(s, i) # "S" THEN <<>>
    ELSE MatchNumber(s, i + 1 + RunLen(s, i + 1, {":"}))

\* r"([0-9]*\.?[0-9]+)/10" at position i of s: the group must end where
\* "/10" starts, so it is the text up to the next "/".
MatchTenth(s, i) ==
    LET n == RunLen(s, i, Digits \cup {"."})
        g == SubSeq(s, i, i + n - 1)
    IN  IF /\ n >= 1
           /\ IsDigit(g[n])
           /\ Cardinality({k \in 1 .. n : g[k] = "."}) <= 1
           /\ At(s, i + n) = "/" /\ At(s, i + n + 1) = "1" /\ At(s, i + n + 2) = "0"
        THEN <<g>>
        ELSE <<>>

\* re.findall(pattern, response)[0] for the three patterns, in their order:
\* the group of the leftmost match, as <<text>>, or <<>> without a match.
FirstMatch(k, s) ==
    LET M(i) == IF k = 1 THEN MatchUnit(s, i)
                ELSE IF k = 2 THEN MatchScore(s, i)
                ELSE MatchTenth(s, i)
        hits == {i \in 1 .. Len(s) : M(i) # <<>>}
    IN  IF hits = {} THEN <<>>
        ELSE M(CHOOSE i \in hits : \A j \in hits : i <= j)

\* "/10" in response
HasTenth(s) ==
    \E i \in 1 .. Len(s) : At(s, i) = "/" /\ At(s, i + 1) = "1" /\ At(s, i + 2) = "0"

\* LLMScorer._extract_score_from_response: for each pattern in order, the
\* first match is converted, divided by 10 when the response contains "/10"
\* and the value exceeds 1, and returned when it lies in [0, 1].
RECURSIVE ExtractFrom(_, _)
ExtractFrom(k, s) ==
    IF k > 3 THEN [ok |-> FALSE, err |-> "ValueError", val |-> None]
    ELSE LET m == FirstMatch(k, s)
         IN  IF m = <<>> THEN ExtractFrom(k + 1, s)
             ELSE LET p == ParseFloat(m[1])
                  IN  IF ~p.ok THEN ExtractFrom(k + 1, s)
                      ELSE LET v == IF HasTenth(s) /\ ~RatLeq(p.val, One)
                                    THEN RatDivInt(p.val, 10) ELSE p.val
                           IN  IF RatLeq(Zero, v) /\ RatLeq(v, One)
                               THEN [ok |-> TRUE, err |-> "", val |-> v]
                               ELSE ExtractFrom(k + 1, s)
ExtractScoreFromResponse(s) == ExtractFrom(1, s)

\* The configurations of an LLM scorer: whether the prompt template is one
\* the renderer accepts, and the completion service's answer to the rendered
\* prompt: a text, or a failure of the request.
LLMScorersOver(R) ==
    {l \in [template_ok : BOOLEAN, reply_ok : BOOLEAN, reply : R] :
        (~l.template_ok \/ ~l.reply_ok) => l.reply = <<>>}
LLMScorers == LLMScorersOver(Responses)

\* LLMScorer.score(context): the template is rendered and the client created
\* before the try block; inside it one completion request is issued and the
\* score extracted; "except Exception" turns every failure into ValueError.
\* requests is the number of completion requests the call issued.
Extracted(x) == [ok |-> x.ok, err |-> x.err, val |-> x.val, requests |-> 1]
LLMScorerScore(cfg) ==
    IF ~cfg.template_ok
    THEN [ok |-> FALSE, err |-> "TemplateSyntaxError", val |-> None, requests |-> 0]
    ELSE IF ~cfg.reply_ok
    THEN [ok |-> FALSE, err |-> "ValueError", val |-> None, requests |-> 1]
    ELSE Extracted(ExtractScoreFromResponse(cfg.reply))

\* ------------------------------------------ SpecLLM: LLM scorer calls
\* One leaf whose scorer is an LLM scorer.
InitLLM ==
    /\ alive = {Root}
    /\ name = [n \in Ids |-> IF n = Root THEN "a" ELSE ""]
    /\ is_critical = [n \in Ids |-> FALSE]
    /\ children = [n \in Ids |-> <<>>]
    /\ \E cfg \in LLMScorers :
           scorer = [n \in Ids |-> IF n = Root THEN <<cfg>> ELSE None]
    /\ score = [n \in Ids |-> None]
    /\ reason = [n \in Ids |-> None]
    /\ ret = NoCall
    /\ hist = NoHistory
    /\ files = {}

\* root.scorer.score(context)
LLMScore(c) ==
    /\ LET r == LLMScorerScore(scorer[Root][1])
       IN  ret' = [op |-> "llm_score", node |-> Root, ctx |-> c, ok |-> r.ok,
                   err |-> r.err, val |-> r.val,
                   rq |-> [NoRequests EXCEPT ![Root] = r.requests],
                   stale |-> FALSE, tr |-> <<>>, wn |-> NoRequests]
    /\ UNCHANGED <<shape, score, reason, hist, files>>

NextLLM == \E c \in Contexts : LLMScore(c)

SpecLLM == InitLLM /\ [][NextLLM]_vars

\* ------------------------------------------- leaves with a variant scorer
\* The scorers of the three variants, as <<variant, configuration>>.
VariantScorers ==
    {<<"function", f>> : f \in FunctionScorers}
        \cup {<<"script", s>> :
                 s \in [script_content : ScriptsOver({<<>>, <<"1">>, <<"0", ".", "5">>}),
                        script_language : {"python", "bash", "ruby"},
                        timeout : {10, 30}]}
        \cup {<<"llm", l>> :
                 l \in LLMScorersOver(UNION {[1 .. k -> RespChars] : k \in 0 .. 1})}

\* The keyword arguments of compute_score(**context) for the context c: none,
\* value=v, or context={"value": v}.
Keywords == {"none", "value", "context"}
KeywordNames(kw) == IF kw = "none" THEN {} ELSE {kw}

\* scorer.score(context) of the scorer s = <<variant, configuration>>: the
\* float returned or the exception raised, the temporary files left, and
\* the completion requests issued.
FloatOf(r, fs, requests) ==
    [ok |-> r.ok, err |-> r.err, val |-> PyValue("float", r.val),
     files |-> fs, requests |-> requests]
ScriptFloat(r) == FloatOf(r, r.files, 0)
LLMFloat(r, fs) == FloatOf(r, fs, r.requests)
VariantScore(s, c, fs) ==
    IF s[1] = "function"
    THEN FloatOf(FunctionScorerScore(s[2], c), fs, 0)
    ELSE IF s[1] = "script"
    THEN ScriptFloat(ScriptScorerScore(s[2], fs))
    ELSE LLMFloat(LLMScorerScore(s[2]), fs)

\* self.scorer.score(**context): the keyword arguments are bound to the
\* parameters of score(self, context); any other set of names is a TypeError
\* raised before the scorer runs.
Called(r) ==
    [ok |-> r.ok, err |-> r.err, val |-> r.val, files |-> r.files,
     requests |-> r.requests, called |-> TRUE]
ScoreWithKeywords(s, kw, c, fs) ==
    IF KeywordNames(kw) # {"context"}
    THEN [ok |-> FALSE, err |-> "TypeError", val |-> PyNone, files |-> fs,
          requests |-> 0, called |-> FALSE]
    ELSE Called(VariantScore(s, c, fs))

\* self._score, self._reason = value: the two items of a pair; a float
\* cannot be unpacked.
Unpack(v) ==
    IF v.type = "tuple" /\ Len(v.val) = 2
    THEN [ok |-> TRUE, err |-> "", score |-> v.val[1], reason |-> v.val[2]]
    ELSE [ok |-> FALSE, err |-> "TypeError", score |-> None, reason |-> None]

\* --------------------- SpecLeaf: evaluation of a variant-scored leaf
InitLeaf ==
    /\ alive = {Root}
    /\ name = [n \in Ids |-> IF n = Root THEN "a" ELSE ""]
    /\ is_critical = [n \in Ids |-> FALSE]
    /\ children = [n \in Ids |-> <<>>]
    /\ \E s \in VariantScorers : scorer = [n \in Ids |-> IF n = Root THEN s ELSE None]
    /\ score = [n \in Ids |-> None]
    /\ reason = [n \in Ids |-> None]
    /\ ret = NoCall
    /\ hist = NoHistory
    /\ files = {}

\* root.compute_score(**context) on the leaf (node.py:182-186): the scorer is
\* called with the keyword arguments and its result unpacked into _score and
\* _reason.
LeafAssign(r, c) ==
    /\ LET u == Unpack(r.val)
           done == [op |-> "leaf_compute_score", node |-> Root, ctx |-> c,
                    ok |-> r.ok /\ u.ok,
                    err |-> IF ~r.ok THEN r.err ELSE u.err,
                    val |-> IF r.ok /\ u.ok THEN u.score ELSE None,
                    rq |-> [NoRequests EXCEPT ![Root] = r.requests],
                    stale |-> FALSE,
                    tr |-> IF r.called THEN <<Root>> ELSE <<>>,
                    wn |-> NoRequests]
       IN  /\ files' = r.files
           /\ ret' = done
           /\ score' = IF done.ok THEN [score EXCEPT ![Root] = u.score] ELSE score
           /\ reason' = IF done.ok THEN [reason EXCEPT ![Root] = <<u.reason>>] ELSE reason
    /\ UNCHANGED <<shape, hist>>

LeafComputeScore(kw, c) ==
    /\ Cardinality(files) < MaxFiles
    /\ LeafAssign(ScoreWithKeywords(scorer[Root], kw, c, files), c)

NextLeaf == \E kw \in Keywords, c \in Contexts : LeafComputeScore(kw, c)

SpecLeaf == InitLeaf /\ [][NextLeaf]_vars

\* ------------------------- SpecFloat: the scoring rules on Python floats
\* Python's float is a binary floating-point number: a significand of
\* Precision bits, every arithmetic result rounded to the nearest such number,
\* ties to the even significand.  The exponent range is not modelled.
RECURSIVE Pow2(_)
Pow2(k) == IF k = 0 THEN 1 ELSE 2 * Pow2(k - 1)

\* The integer nearest to a / b, ties to even.
RoundHalfEven(a, b) ==
    LET q == a \div b
        r == a % b
    IN  IF 2 * r < b THEN q
        ELSE IF 2 * r > b THEN q + 1
        ELSE IF q % 2 = 0 THEN q ELSE q + 1

\* The float nearest to the rational x >= 0.
RoundFloat(x) ==
    IF x[1] = 0 THEN Zero
    ELSE LET up == CHOOSE e \in 0 .. Precision + 8 :
                       /\ x[1] * Pow2(e) >= Pow2(Precision - 1) * x[2]
                       /\ \A f \in 0 .. e - 1 :
                              x[1] * Pow2(f) < Pow2(Precision - 1) * x[2]
             down == CHOOSE e \in 0 .. Precision + 8 :
                         /\ x[1] < Pow2(Precision) * x[2] * Pow2(e)
                         /\ \A f \in 0 .. e - 1 :
                                x[1] >= Pow2(Precision) * x[2] * Pow2(f)
             m == RoundHalfEven(x[1] * Pow2(up), x[2] * Pow2(down))
         IN  Rat(m * Pow2(down), Pow2(up))

\* sum(scores) on floats: the additions from left to right, each rounded.
RECURSIVE FloatSumFrom(_, _)
FloatSumFrom(acc, s) ==
    IF s = <<>> THEN acc
    ELSE FloatSumFrom(RoundFloat(RatAdd(acc, Head(s))), Tail(s))

FloatSum(s) == FloatSumFrom(Zero, s)

\* sum(scores) / len(scores) on floats.
FloatMean(s) == RoundFloat(RatDivInt(FloatSum(s), Len(s)))

\* The rules with the test of the veto inverted.
AggregateFloatVetoInverted(flags, all_scores) ==
    LET critical_scores == Pick(all_scores, flags, TRUE)
        non_critical_scores == Pick(all_scores, flags, FALSE)
    IN  IF critical_scores # <<>>
        THEN IF \E i \in 1 .. Len(critical_scores) : critical_scores[i] # Zero
             THEN Zero
             ELSE IF \A i \in 1 .. Len(critical_scores) : critical_scores[i] = One
                  THEN IF non_critical_scores # <<>>
                       THEN FloatMean(non_critical_scores)
                       ELSE One
                  ELSE FloatMean(all_scores)
        ELSE IF all_scores # <<>> THEN FloatMean(all_scores) ELSE Zero

\* The scoring rules of compute_score on float scores.
AggregateFloat(flags, all_scores) ==
    LET critical_scores == Pick(all_scores, flags, TRUE)
        non_critical_scores == Pick(all_scores, flags, FALSE)
    IN  IF critical_scores # <<>>
        THEN IF \E i \in 1 .. Len(critical_scores) : critical_scores[i] = Zero
             THEN Zero
             ELSE IF \A i \in 1 .. Len(critical_scores) : critical_scores[i] = One
                  THEN IF non_critical_scores # <<>>
                       THEN FloatMean(non_critical_scores)
                       ELSE One
                  ELSE FloatMean(all_scores)
        ELSE IF all_scores # <<>> THEN FloatMean(all_scores) ELSE Zero

\* The scores the leaves' scorers return: the floats nearest to these tenths.
FloatTenths == {0, 1, 7, 10}
FloatScores == {RoundFloat(Rat(k, 10)) : k \in FloatTenths}

FloatIds == 1 .. MaxKids + 1

\* A parent over 1 .. MaxKids scored leaves, nothing evaluated yet.
InitFloat ==
    \E k \in 1 .. MaxKids, crit \in [FloatIds -> BOOLEAN] :
        /\ \A n \in FloatIds : (n = Root \/ n > k + 1) => ~crit[n]
        /\ alive = 1 .. k + 1
        /\ name = [n \in FloatIds |-> IF n <= k + 1 THEN "a" ELSE ""]
        /\ is_critical = crit
        /\ children = [n \in FloatIds |->
                          IF n = Root THEN [i \in 1 .. k |-> i + 1] ELSE <<>>]
        /\ scorer = [n \in FloatIds |->
                        IF n \in 2 .. k + 1 THEN "float" ELSE NoScorer]
        /\ score = [n \in FloatIds |-> None]
        /\ reason = [n \in FloatIds |-> None]
        /\ ret = NoCall
        /\ hist = NoHistory
        /\ files = {}

\* root.compute_score(**context) when the children's scorers return the floats
\* vs (node.py:167-226); ctx names the child whose scorer returns something
\* else than in the evaluation before, 0 in the first evaluation.
FloatEvaluation(vs, i) ==
    /\ LET s == AggregateFloat(Flags(Root), vs)
       IN  /\ score' = [n \in FloatIds |->
                           IF n = Root THEN s
                           ELSE IF n \in alive THEN vs[n - 1] ELSE None]
           /\ reason' = [n \in FloatIds |->
                            IF n \in alive \ {Root} THEN <<"scored">> ELSE reason[n]]
           /\ ret' = [NoCall EXCEPT !.op = "float_compute_score", !.node = Root,
                                    !.ctx = i, !.val = s,
                                    !.tr = Tail(SortedSeq(alive))]
    /\ UNCHANGED <<shape, hist, files>>

\* The first evaluation, in any context.
FloatComputeScore(vs) ==
    /\ score[Root] = None
    /\ FloatEvaluation(vs, 0)

\* A later evaluation, in a context that differs from the last one in what the
\* scorer of child i returns.
FloatRecompute(i, v) ==
    /\ score[Root] # None
    /\ v # score[children[Root][i]]
    /\ FloatEvaluation([k \in 1 .. Len(children[Root]) |->
                           IF k = i THEN v ELSE score[children[Root][k]]], i)

NextFloat ==
    \/ \E vs \in [1 .. Len(children[Root]) -> FloatScores] : FloatComputeScore(vs)
    \/ \E i \in 1 .. Len(children[Root]), v \in FloatScores : FloatRecompute(i, v)

SpecFloat == InitFloat /\ [][NextFloat]_vars

\* ------------------------------- SpecStruct: construction and mutation
\* Names given to constructed nodes (a name stands for name and description;
\* metadata keeps its default).
Names == {"a", "b"}
StructScorers == {"zero", "one"}

\* The children lists a constructor call may be given.
ChildLists == UNION {[1 .. k -> alive] : k \in 0 .. MaxChildren}

\* a == b for two nodes: the dataclass-generated __eq__ compares the fields in
\* declaration order, identical objects being equal without comparison.
\* "T", "F", or "E" when the comparison exceeds the recursion limit.
RECURSIVE NodeEq(_, _, _)
RECURSIVE ListEq(_, _, _, _)
ListEq(xs, ys, i, fuel) ==
    IF i > Len(xs) THEN "T"
    ELSE LET e == NodeEq(xs[i], ys[i], fuel)
         IN  IF e # "T" THEN e ELSE ListEq(xs, ys, i + 1, fuel)
NodeEq(a, b, fuel) ==
    IF a = b THEN "T"
    ELSE IF fuel = 0 THEN "E"
    ELSE IF name[a] # name[b] \/ is_critical[a] # is_critical[b] THEN "F"
    ELSE IF Len(children[a]) # Len(children[b]) THEN "F"
    ELSE LET e == ListEq(children[a], children[b], 1, fuel - 1)
         IN  IF e # "T" THEN e
             ELSE IF scorer[a] = scorer[b] /\ score[a] = score[b] /\ reason[a] = reason[b]
                  THEN "T" ELSE "F"

\* Index of the first element of xs equal to node c, 0 when there is none,
\* -1 when a comparison on the way fails.
RECURSIVE IndexOf(_, _, _)
IndexOf(xs, c, i) ==
    IF i > Len(xs) THEN 0
    ELSE LET e == NodeEq(xs[i], c, RecursionLimit)
         IN  IF e = "T" THEN i ELSE IF e = "E" THEN -1 ELSE IndexOf(xs, c, i + 1)

RemoveAt(xs, i) == SubSeq(xs, 1, i - 1) \o SubSeq(xs, i + 1, Len(xs))

Done(op, n) == [op |-> op, node |-> n, ctx |-> 0, ok |-> TRUE, err |-> "",
                val |-> None, rq |-> NoRequests, stale |-> FALSE,
     tr |-> <<>>, wn |-> NoRequests]
Failed(op, n, e) == [op |-> op, node |-> n, ctx |-> 0, ok |-> FALSE, err |-> e,
                     val |-> None, rq |-> NoRequests, stale |-> FALSE,
     tr |-> <<>>, wn |-> NoRequests]

\* RubricNode(name, description, is_critical, children, scorer): __post_init__
\* rejects a node with both or with neither of children and scorer.
Construct(nm, crit, kids, s) ==
    LET n == Cardinality(alive) + 1
    IN  /\ n <= MaxHeap
        /\ IF (kids # <<>> /\ s # NoScorer) \/ (kids = <<>> /\ s = NoScorer)
           THEN /\ ret' = Failed("construct", 0, "ValueError")
                /\ UNCHANGED shape
           ELSE /\ alive' = alive \cup {n}
                /\ name' = [name EXCEPT ![n] = nm]
                /\ is_critical' = [is_critical EXCEPT ![n] = crit]
                /\ children' = [children EXCEPT ![n] = kids]
                /\ scorer' = [scorer EXCEPT ![n] = s]
                /\ ret' = Done("construct", n)
        /\ UNCHANGED <<score, reason, hist, files>>

\* parent.add_child(child)
AddChild(p, c) ==
    /\ p \in alive /\ c \in alive
    /\ Len(children[p]) < MaxChildren
    /\ IF scorer[p] # NoScorer
       THEN /\ ret' = Failed("add_child", p, "ValueError")
            /\ UNCHANGED children
       ELSE /\ children' = [children EXCEPT ![p] = Append(@, c)]
            /\ ret' = Done("add_child", p)
    /\ UNCHANGED <<alive, name, is_critical, scorer, score, reason, hist, files>>

\* parent.remove_child(child): if child in self.children: self.children.remove(child)
RemoveChild(p, c) ==
    /\ p \in alive /\ c \in alive
    /\ LET i == IndexOf(children[p], c, 1)
       IN  IF i = -1
           THEN /\ ret' = Failed("remove_child", p, "RecursionError")
                /\ UNCHANGED children
           ELSE /\ children' = IF i = 0 THEN children
                               ELSE [children EXCEPT ![p] = RemoveAt(@, i)]
                /\ ret' = Done("remove_child", p)
    /\ UNCHANGED <<alive, name, is_critical, scorer, score, reason, hist, files>>

\* node.set_scorer(scorer)
SetScorer(p, s) ==
    /\ p \in alive
    /\ IF children[p] # <<>>
       THEN /\ ret' = Failed("set_scorer", p, "ValueError")
            /\ UNCHANGED scorer
       ELSE /\ scorer' = [scorer EXCEPT ![p] = s]
            /\ ret' = Done("set_scorer", p)
    /\ UNCHANGED <<alive, name, is_critical, children, score, reason, hist, files>>

InitStruct ==
    /\ alive = {}
    /\ name = [n \in Ids |-> ""]
    /\ is_critical = [n \in Ids |-> FALSE]
    /\ children = [n \in Ids |-> <<>>]
    /\ scorer = [n \in Ids |-> NoScorer]
    /\ score = [n \in Ids |-> None]
    /\ reason = [n \in Ids |-> None]
    /\ ret = NoCall
    /\ hist = NoHistory
    /\ files = {}

NextStruct ==
    \/ \E nm \in Names, crit \in BOOLEAN, kids \in ChildLists,
          s \in StructScorers \cup {NoScorer} : Construct(nm, crit, kids, s)
    \/ \E p \in Ids, c \in Ids : AddChild(p, c)
    \/ \E p \in Ids, c \in Ids : RemoveChild(p, c)
    \/ \E p \in Ids, s \in StructScorers : SetScorer(p, s)

SpecStruct == InitStruct /\ [][NextStruct]_vars

\* --------------------- SpecPrune: evaluation after removal of children
InitPrune == Trees(MaxNodes, {"zero", "one"})

PruneRemoveChild(p, c) == RemoveChild(p, c)
PruneComputeScore(n, c) == ComputeScoreCall(n, c) /\ UNCHANGED hist

NextPrune ==
    \/ \E p \in Ids, c \in Ids : PruneRemoveChild(p, c)
    \/ \E n \in Ids, c \in Contexts : PruneComputeScore(n, c)

SpecPrune == InitPrune /\ [][NextPrune]_vars

\* ------------------------------------------------------ claim vocabulary
Kids(p) == {children[p][i] : i \in 1 .. Len(children[p])}

\* The nodes reachable from the nodes of S through children links.
RECURSIVE Closure(_, _)
Closure(S, k) ==
    IF k = 0 THEN S ELSE Closure(S \cup UNION {Kids(m) : m \in S}, k - 1)
Subtree(n) == Closure({n}, Cardinality(Ids))
Ancestors(n) == {a \in alive : a # n /\ n \in Subtree(a)}

\* The last call was a successful evaluation that covered node p, so p and
\* its children hold the scores of that one evaluation.
Fresh(p) ==
    /\ ret.op \in {"compute_score", "evaluate"}
    /\ ret.ok
    /\ p \in Subtree(ret.node)

ChildScores(p) == [i \in 1 .. Len(children[p]) |-> score[children[p][i]]]
CriticalIdx(p) == {i \in 1 .. Len(children[p]) : is_critical[children[p][i]]}
NonCriticalIdx(p) == {i \in 1 .. Len(children[p]) : ~is_critical[children[p][i]]}

\* r is the arithmetic mean of the scores of p's children with index in I,
\* stated by cross-multiplication over the product L of the denominators.
RECURSIVE DenProd(_, _)
DenProd(p, I) ==
    IF I = {} THEN 1
    ELSE LET i == CHOOSE x \in I : TRUE
         IN  score[children[p][i]][2] * DenProd(p, I \ {i})
RECURSIVE ScaledSum(_, _, _)
ScaledSum(p, I, L) ==
    IF I = {} THEN 0
    ELSE LET i == CHOOSE x \in I : TRUE
             s == score[children[p][i]]
         IN  s[1] * (L \div s[2]) + ScaledSum(p, I \ {i}, L)
IsMeanOf(r, p, I) ==
    LET L == DenProd(p, I)
    IN  r[1] * Cardinality(I) * L = r[2] * ScaledSum(p, I, L)

InUnit(r) == r # None /\ 0 <= r[1] /\ r[1] <= r[2]

\* ------------------------------------------------------------------ claims
\* C1 (veto): after an evaluation covering parent p, if some critical child of
\* p scored exactly 0 then p's score is exactly 0, whatever the other children.
C1_Veto ==
    \A p \in alive :
        (/\ Fresh(p)
         /\ IsParent(p)
         /\ \E i \in CriticalIdx(p) : score[children[p][i]] = Zero)
            => score[p] = Zero

\* A parent was scored 0 although another of its critical children scored 1.
C1_Witness ==
    \E p \in alive :
        /\ Fresh(p)
        /\ \E i \in CriticalIdx(p) : score[children[p][i]] = Zero
        /\ \E i \in CriticalIdx(p) : score[children[p][i]] = One
        /\ score[p] = Zero

C4_ScoreInUnit ==
    (ret.op \in {"evaluate", "compute_score"} /\ ret.ok)
        => \A n \in Subtree(ret.node) : InUnit(score[n])

\* A successful evaluation of a tree of depth two whose root and inner parent
\* both hold a score.
C4_Witness ==
    /\ ret.op = "evaluate"
    /\ ret.ok
    /\ \E m \in Kids(Root) : IsParent(m) /\ InUnit(score[m]) /\ score[m] # Zero
    /\ InUnit(score[Root])
    /\ score[Root] \notin {Zero, One}

\* C5: every constructed node has exactly one of a non-empty children list
\* and a scorer, after any sequence of constructions and mutations.
C5_ExactlyOne ==
    \A n \in alive : (children[n] # <<>>) # (scorer[n] # NoScorer)

\* C6: the children relation is acyclic: no node is reachable from itself.
C6_Acyclic ==
    \A n \in alive : \A k \in Kids(n) : n \notin Subtree(k)

\* The leaf l has a scorer that fails in context c.
FailsIn(l, c) ==
    IsLeaf(l) /\ scorer[l] # NoScorer /\ ScorerCall(scorer[l], c).raises

\* C9: when a leaf's scorer fails in the context of a tree evaluation, the
\* evaluate call fails with the scoring error and returns no score, and no
\* ancestor of that leaf, the root included, is left with a cached score.
C9_Abort ==
    \A l \in alive :
        (ret.op = "evaluate" /\ FailsIn(l, ret.ctx))
            => /\ ~ret.ok
               /\ ret.err = "ScoringError"
               /\ ret.val = None
               /\ \A a \in Ancestors(l) : score[a] = None

\* A tree evaluation failed at a leaf two levels below the root: the root
\* and the parent in between are unscored.
C9_Witness ==
    /\ ret.op = "evaluate"
    /\ ~ret.ok
    /\ \E l \in alive :
           /\ FailsIn(l, ret.ctx)
           /\ Cardinality(Ancestors(l)) >= 2
           /\ \A a \in Ancestors(l) : score[a] = None

\* C8 (idempotence): all evaluations of the freshly reset tree in one context
\* produced the same outcome: the same root score and the same score on every
\* node.
C8_Idempotent ==
    \A c \in Contexts : Cardinality(hist[c].outs) <= 1

\* The tree was evaluated repeatedly in both contexts, the evaluations of one
\* context returned a score, and the two contexts gave different outcomes.
C8_Witness ==
    /\ \A c \in Contexts : hist[c].again /\ Cardinality(hist[c].outs) = 1
    /\ \E c \in Contexts : \E o \in hist[c].outs : o.ok /\ o.val \notin {Zero, One}
    /\ hist[1].outs # hist[2].outs
    /\ IsParent(Root)

AllNone == [n \in Ids |-> None]

\* C7: after tree.evaluate(context) the cached scores and reasons of all nodes,
\* the outcome and the returned score are those of an evaluation of the root
\* started from empty caches: nothing cached earlier survives or is used, and
\* the score returned is the root's new cached score.
C7_EvaluateFresh ==
    ret.op = "evaluate" =>
        LET r == ComputeScore(Root, ret.ctx, AllNone, AllNone, RecursionLimit)
        IN  /\ score = r.sc
            /\ reason = r.rs
            /\ ret.ok = r.ok
            /\ ret.val = r.val
            /\ ret.ok => ret.val = score[Root]

\* A successful evaluation of a tree whose root held another score and in
\* which a parent's reason was cached: the reasons of all parents are unset.
C7_Witness ==
    /\ ret.op = "evaluate"
    /\ ret.ok
    /\ ret.stale
    /\ ret.val = score[Root]
    /\ \A p \in alive : IsParent(p) => reason[p] = None

AllScored(p) == \A n \in Subtree(p) : score[n] # None

\* C10: a successful evaluation leaves every parent's reason cache unset; the
\* first read of a scored parent's reason issues exactly one explanation
\* request for that parent and caches the text it returns; a read that finds
\* the cache set returns the cached text, issues no request and changes nothing.
C10_Step ==
    /\ (ret'.op = "evaluate" /\ ret'.ok)
           => \A p \in alive : IsParent(p) => reason'[p] = None
    /\ \A p \in alive :
           (IsParent(p) /\ AllScored(p) /\ ret'.op = "reason" /\ ret'.node = p)
               => IF reason[p] = None
                  THEN /\ ret'.ok
                       /\ ret'.rq[p] = 1
                       /\ ret'.val # None
                       /\ reason'[p] = ret'.val
                  ELSE /\ ret'.ok
                       /\ ret'.rq = NoRequests
                       /\ ret'.val = reason[p]
                       /\ reason' = reason
C10_LazyReason == [][C10_Step]_vars

\* The reason of a scored parent with a parent child was read again: the read
\* returned the cached text without any request.
C10_Witness ==
    /\ ret.op = "reason"
    /\ ret.ok
    /\ IsParent(ret.node)
    /\ \E m \in Kids(ret.node) : IsParent(m) /\ reason[m] # None
    /\ AllScored(ret.node)
    /\ ret.rq = NoRequests
    /\ ret.val = reason[ret.node]

\* C11: when the explanation request of a fully scored parent fails while its
\* reason is synthesized, the read returns normally; the text it returns and
\* caches is the fallback built from the node's score and its number of
\* children; one warning is emitted for the node; no cached score changes.
C11_Step ==
    LET p == ret'.node
    IN  (/\ ret'.op = "reason"
         /\ IsParent(p)
         /\ AllScored(p)
         /\ reason[p] = None)
            => \A llm \in Oracles :
                   (~llm[p] /\ ReasonRead(p, llm))
                       => /\ ret'.ok
                          /\ ret'.val = <<[kind |-> "fallback", scorer |-> "", ctx |-> 0,
                                           own |-> score[p], kids |-> <<>>,
                                           n |-> Len(children[p])]>>
                          /\ reason'[p] = ret'.val
                          /\ ret'.wn[p] = 1
                          /\ score' = score
C11_Fallback == [][C11_Step]_vars

\* A read of a scored parent's reason returned the fallback with a warning,
\* while the request of one of its parent children succeeded.
C11_Witness ==
    /\ ret.op = "reason"
    /\ ret.ok
    /\ IsParent(ret.node)
    /\ AllScored(ret.node)
    /\ ret.val[1].kind = "fallback"
    /\ ret.val[1].own = score[ret.node]
    /\ ret.wn[ret.node] = 1
    /\ \E m \in Kids(ret.node) :
           IsParent(m) /\ reason[m] # None /\ reason[m][1].kind = "llm"

\* C12: reset_scores() on a node leaves the cached score and the cached reason
\* of that node and of every descendant unset, and changes neither the
\* structure, scorers, critical flags and names of the tree nor the caches of
\* the nodes outside the subtree.
C12_Step ==
    ret'.op = "reset_scores"
        => /\ ret'.ok
           /\ \A m \in Subtree(ret'.node) : score'[m] = None /\ reason'[m] = None
           /\ \A m \in alive \ Subtree(ret'.node) :
                  score'[m] = score[m] /\ reason'[m] = reason[m]
           /\ shape' = shape
C12_ResetFrame == [][C12_Step]_vars

\* An inner parent was reset while the root keeps its score: the parent and
\* the leaf under it are unscored.
C12_Witness ==
    /\ ret.op = "reset_scores"
    /\ ret.ok
    /\ ret.node # Root
    /\ IsParent(ret.node)
    /\ \A m \in Subtree(ret.node) : score[m] = None /\ reason[m] = None
    /\ score[Root] # None

\* Child-index paths from the root, long enough for every node of a tree.
Paths == UNION {[1 .. k -> 1 .. MaxNodes] : k \in 0 .. MaxNodes}

\* The node of the heap reached from n along a path, 0 when there is none.
RECURSIVE OrigAt(_, _)
OrigAt(n, path) ==
    IF path = <<>> THEN n
    ELSE IF Head(path) > Len(children[n]) THEN 0
    ELSE OrigAt(children[n][Head(path)], Tail(path))

\* The restored node reached from v along a path, as <<node>>, or <<>>.
RECURSIVE RestAt(_, _)
RestAt(v, path) ==
    IF path = <<>> THEN <<v>>
    ELSE IF Head(path) > Len(v.children) THEN <<>>
    ELSE RestAt(v.children[Head(path)], Tail(path))

\* Every leaf of the tree has a scorer (every parent has children by is_parent).
ValidTree == \A n \in Subtree(Root) : IsLeaf(n) => scorer[n] # NoScorer

\* C13: for a valid tree, from_dict(to_dict(root)) succeeds and the restored
\* tree has a node exactly where the original has one, with the same name and
\* critical flag, the same number of children in the same order, the same
\* scorer variant and configuration on every leaf, and no cached score or
\* reason.
C13_RoundTrip ==
    (ret.op = "round_trip" /\ ValidTree)
        => /\ ret.ok
           /\ \A path \in Paths :
                  LET o == OrigAt(Root, path)
                      r == RestAt(ret.val[1], path)
                  IN  IF o = 0
                      THEN r = <<>>
                      ELSE /\ r # <<>>
                           /\ r[1].name = name[o]
                           /\ r[1].is_critical = is_critical[o]
                           /\ Len(r[1].children) = Len(children[o])
                           /\ r[1].scorer = IF scorer[o] = NoScorer THEN <<>>
                                            ELSE <<ScorerType(scorer[o]), scorer[o]>>
                           /\ r[1].score = None
                           /\ r[1].reason = None

\* A scored tree whose leaves carry a script scorer and a function scorer, one
\* of them critical, was restored without its scores.
C13_Witness ==
    /\ ret.op = "round_trip"
    /\ ret.ok
    /\ ValidTree
    /\ \A n \in Subtree(Root) : score[n] # None
    /\ \E l1, l2 \in Subtree(Root) :
           /\ IsLeaf(l1) /\ IsLeaf(l2)
           /\ ScorerType(scorer[l1]) = "script" /\ ScorerType(scorer[l2]) = "function"
           /\ is_critical[l1] # is_critical[l2]
    /\ ret.val[1].score = None
    /\ Len(ret.val[1].children) = Len(children[Root])

\* The path from the root to a node of the tree, and the order in which a
\* traversal (parents first, children in list order) meets two paths.
PathTo(n) == CHOOSE path \in Paths : OrigAt(Root, path) = n
Before(p, q) ==
    \/ Len(p) < Len(q) /\ SubSeq(q, 1, Len(p)) = p
    \/ \E k \in 1 .. MaxNodes :
           /\ k <= Len(p) /\ k <= Len(q)
           /\ SubSeq(p, 1, k - 1) = SubSeq(q, 1, k - 1)
           /\ p[k] < q[k]

\* The nodes of the tree that have neither children nor a scorer.
Violators == {n \in Subtree(Root) : children[n] = <<>> /\ scorer[n] = NoScorer}

\* C14: validate() returns normally with one message per node of the tree that
\* has neither children nor a scorer, in traversal order, each naming the
\* missing scorer; the list is empty exactly when there is no such node, and
\* has exactly one message when exactly one leaf lost its scorer.
C14_Validate ==
    ret.op = "validate" =>
        LET errors == ret.val[1]
        IN  /\ ret.ok
            /\ Len(errors) = Cardinality(Violators)
            /\ {errors[i].node : i \in 1 .. Len(errors)} = Violators
            /\ \A i \in 1 .. Len(errors) : errors[i].kind = "no scorer"
            /\ \A i, j \in 1 .. Len(errors) :
                   i < j => Before(PathTo(errors[i].node), PathTo(errors[j].node))
            /\ (errors = <<>>) <=> (Violators = {})

\* The scorer of one of the two leaves of a tree was removed: validate returned
\* exactly one message, about that leaf's missing scorer.
C14_Witness ==
    /\ ret.op = "validate"
    /\ Cardinality(Violators) = 1
    /\ \E l \in Subtree(Root) : IsLeaf(l) /\ scorer[l] # NoScorer
    /\ Len(ret.val[1]) = 1
    /\ ret.val[1][1].kind = "no scorer"
    /\ ret.val[1][1].node \in Violators

\* The number of edges of the longest path from the root.
Height == CHOOSE h \in 0 .. MaxNodes :
              /\ \E path \in Paths : Len(path) = h /\ OrigAt(Root, path) # 0
              /\ \A path \in Paths : OrigAt(Root, path) # 0 => Len(path) <= h

\* C17: statistics() counts every node reachable from the root once, splits
\* the count into leaves and parents, and reports as maximum depth the number
\* of edges of the longest path from the root.
C17_Statistics ==
    ret.op = "statistics" =>
        LET s == ret.val[1]
        IN  /\ s.total_nodes = s.leaf_nodes + s.parent_nodes
            /\ s.total_nodes = Cardinality(Subtree(Root))
            /\ s.leaf_nodes = Cardinality({n \in Subtree(Root) : children[n] = <<>>})
            /\ s.parent_nodes = Cardinality({n \in Subtree(Root) : children[n] # <<>>})
            /\ s.max_depth = Height
            /\ (Cardinality(Subtree(Root)) = 1 => s.max_depth = 0)
            /\ ((IsParent(Root) /\ \A k \in Kids(Root) : IsLeaf(k)) => s.max_depth = 1)

\* Statistics of a chain of three nodes: two parents, one leaf, depth two.
C17_Witness ==
    /\ ret.op = "statistics"
    /\ ret.val[1].total_nodes = 3
    /\ ret.val[1].leaf_nodes = 1
    /\ ret.val[1].parent_nodes = 2
    /\ ret.val[1].max_depth = 2

\* The exception class with which the scorers report a scoring failure.
ScoringErrors == {"ValueError"}

\* The script scorer of the root, and whether its script ran to a valid score.
ScriptOf == scorer[Root][1]
ScriptGood ==
    /\ ScriptOf.script_content.elapsed <= ScriptOf.timeout
    /\ ScriptOf.script_content.returncode = 0
    /\ ParseFloat(Strip(ScriptOf.script_content.stdout)).ok
    /\ InUnit(ParseFloat(Strip(ScriptOf.script_content.stdout)).val)

\* C15: a call of a script scorer whose script is started returns v exactly
\* when the script exits with code 0 within the timeout and its output parses
\* to v in [0, 1]; otherwise it raises the scoring error and returns nothing.
C15_ScriptContract ==
    (/\ ret.op = "script_score"
     /\ ScriptOf.script_content.is_str
     /\ Supported(ScriptOf.script_language))
        => IF ScriptGood
           THEN /\ ret.ok
                /\ ret.val = ParseFloat(Strip(ScriptOf.script_content.stdout)).val
           ELSE /\ ~ret.ok
                /\ ret.val = None
                /\ ret.err \in ScoringErrors

\* C16: no temporary script file exists after a call has returned or raised.
C16_NoTempFile == files = {}

LeavesUnder(n) == {l \in Subtree(n) : children[l] = <<>>}
Pos(l) == CHOOSE i \in 1 .. Len(ret.tr) : ret.tr[i] = l

\* C19: a successful evaluation invoked the scorer of every leaf below the
\* evaluated node exactly once, and for any two children of a parent all
\* leaves below the earlier child were scored before all leaves below the
\* later one; no leaf is skipped, whatever its siblings scored.
C19_Order ==
    (ret.op \in {"evaluate", "compute_score"} /\ ret.ok)
        => /\ Len(ret.tr) = Cardinality(LeavesUnder(ret.node))
           /\ {ret.tr[i] : i \in 1 .. Len(ret.tr)} = LeavesUnder(ret.node)
           /\ \A p \in Subtree(ret.node) :
                  \A i, j \in 1 .. Len(children[p]) :
                      i < j =>
                          \A a \in LeavesUnder(children[p][i]) :
                              \A b \in LeavesUnder(children[p][j]) : Pos(a) < Pos(b)

\* The first child of the root is critical and scored 0: its sibling was
\* scored after it all the same.
C19_Witness ==
    /\ ret.op = "evaluate"
    /\ ret.ok
    /\ Len(children[Root]) >= 2
    /\ is_critical[children[Root][1]]
    /\ score[children[Root][1]] = Zero
    /\ Len(ret.tr) >= 2
    /\ \E l \in LeavesUnder(children[Root][2]) : Pos(l) = Len(ret.tr)

\* C20: compute_score on a node that has neither children nor a scorer (a
\* parent whose last child was removed) returns 0.0 and caches it.
C20_ChildlessZero ==
    (/\ ret.op = "compute_score"
     /\ children[ret.node] = <<>>
     /\ scorer[ret.node] = NoScorer)
        => /\ ret.ok
           /\ ret.val = Zero
           /\ score[ret.node] = Zero

\* C21: an evaluation that reaches a leaf without a scorer fails with the
\* missing-scorer error, returns nothing and leaves the cached score of every
\* such leaf as it was; and an evaluation of a tree for which validate()
\* returns the empty list never fails with the missing-scorer error.
C21_Step ==
    ret'.op = "compute_score"
        => /\ Violators # {}
               => /\ ~ret'.ok
                  /\ ret'.err = "ValueError"
                  /\ ret'.val = None
                  /\ \A l \in Violators : score'[l] = score[l]
                  /\ score'[ret'.node] = score[ret'.node]
           /\ TreeValidate(Root) = <<>> => ret'.err # "ValueError"
C21_MissingScorer == [][C21_Step]_vars

\* An evaluation of the root failed at its second leaf, whose scorer is
\* missing, after the first leaf had been scored: the leaf and the root hold
\* no score, and validate() reports the leaf.
C21_Witness ==
    /\ ret.op = "compute_score"
    /\ ~ret.ok
    /\ ret.err = "ValueError"
    /\ Len(ret.tr) = 1
    /\ score[ret.tr[1]] # None
    /\ \E l \in Violators : score[l] = None
    /\ score[Root] = None
    /\ TreeValidate(Root) # <<>>

\* The function scorer of the root, and what a call of its entry point yields
\* in the context of the last call.
FunctionOf == scorer[Root][1]
EntryPointDefined ==
    /\ FunctionOf.function_code.compiles
    /\ FunctionOf.function_code.at_exec = ""
    /\ FunctionOf.function_code.defines = FunctionOf.function_name
EntryPointValue ==
    LET b == FunctionOf.function_code.body
    IN  IF b.does = "return" THEN b.value
        ELSE IF b.does = "scaled" THEN PyValue("float", Rat(ContextValue(ret.ctx), 10))
        ELSE IF b.does = "count" THEN PyValue("float", Rat(1, 2))
        ELSE PyNone

\* C23: a call of a function scorer returns v exactly when the entry point is
\* defined and returns the number v with 0 <= v <= 1; in every other case (no
\* entry point, a value that is no number or out of range, any exception of
\* the executed code) it fails with the scoring error; and repeated calls in
\* one context give one outcome, as each runs in a fresh namespace.
C23_FunctionContract ==
    /\ ret.op = "function_score"
           => IF /\ EntryPointDefined
                 /\ FunctionOf.function_code.body.does # "raise"
                 /\ EntryPointValue.type \in {"int", "float", "bool"}
                 /\ EntryPointValue.val # NaN
                 /\ InUnit(EntryPointValue.val)
              THEN ret.ok /\ ret.val = EntryPointValue.val
              ELSE ~ret.ok /\ ret.val = None /\ ret.err \in ScoringErrors
    /\ \A c \in Contexts : Cardinality(hist[c].outs) <= 1

\* The numbers written in a completion: the maximal runs of digits and
\* points, by their first position; a run is a decimal when it has an integer
\* part without a superfluous leading zero and, after a point, a fraction.
NumChars == Digits \cup {"."}
TokenStarts(s) == {i \in 1 .. Len(s) : s[i] \in NumChars /\ At(s, i - 1) \notin NumChars}
Token(s, i) == SubSeq(s, i, i + RunLen(s, i, NumChars) - 1)
IsDecimal(t) ==
    /\ ParseFloat(t).ok
    /\ IsDigit(t[1]) /\ IsDigit(t[Len(t)])
    /\ t[1] = "0" => (Len(t) = 1 \/ t[2] = ".")
Least(I) == CHOOSE i \in I : \A j \in I : i <= j

\* (a) the first number of the completion that lies in [0, 1].
BareYield(s) ==
    LET I == {i \in TokenStarts(s) : InUnit(ParseFloat(Token(s, i)).val)}
    IN  IF I = {} THEN <<>> ELSE <<ParseFloat(Token(s, Least(I))).val>>
\* (b) the number X of the first "score: X".
ScoreYield(s) ==
    LET J(i) == i + 1 + RunLen(s, i + 1, {":"})
        I == {i \in 1 .. Len(s) : s[i] = "S" /\ J(i) \in TokenStarts(s)}
    IN  IF I = {} THEN <<>> ELSE <<ParseFloat(Token(s, J(Least(I)))).val>>
\* (c) the number X of the first "X/10", divided by 10 when it exceeds 1.
TenthYield(s) ==
    LET E(i) == i + RunLen(s, i, NumChars)
        I == {i \in TokenStarts(s) :
                 At(s, E(i)) = "/" /\ At(s, E(i) + 1) = "1" /\ At(s, E(i) + 2) = "0"}
    IN  IF I = {} THEN <<>>
        ELSE LET x == ParseFloat(Token(s, Least(I))).val
             IN  <<IF RatLeq(x, One) THEN x ELSE RatDivInt(x, 10)>>
\* The value of the first of (a), (b), (c) that yields a value in [0, 1].
FirstYield(s) ==
    LET a == BareYield(s)
        b == ScoreYield(s)
        c == TenthYield(s)
    IN  IF a # <<>> THEN a
        ELSE IF b # <<>> /\ InUnit(b[1]) THEN b
        ELSE IF c # <<>> /\ InUnit(c[1]) THEN c
        ELSE <<>>

\* Every number of the completion is a decimal and is not joined to a word.
Plain(s) ==
    \A i \in TokenStarts(s) :
        /\ IsDecimal(Token(s, i))
        /\ At(s, i - 1) # "S"
        /\ At(s, i + RunLen(s, i, NumChars)) # "S"

LLMOf == scorer[Root][1]

\* C24: a call of an LLM scorer whose template renders issues exactly one
\* completion request; it returns only values in [0, 1] and fails only with
\* the scoring error; and for a completion whose numbers are decimals set
\* apart from the words it returns the value of the first of the patterns (a) number in [0, 1],
\* (b) "score: X", (c) "X/10" that yields a value in [0, 1], and fails when
\* none does.
C24_Extraction ==
    (ret.op = "llm_score" /\ LLMOf.template_ok)
        => /\ ret.rq[Root] = 1
           /\ ret.ok => InUnit(ret.val)
           /\ ~ret.ok => ret.err \in ScoringErrors /\ ret.val = None
           /\ (LLMOf.reply_ok /\ Plain(LLMOf.reply))
                  => IF FirstYield(LLMOf.reply) # <<>>
                     THEN ret.ok /\ ret.val = FirstYield(LLMOf.reply)[1]
                     ELSE ~ret.ok

\* C22: compute_score on a leaf whose scorer, of any of the three variants,
\* produces a score for the evaluation context returns that score, has called
\* the scorer exactly once, and leaves the scorer's score in the leaf's score
\* cache and the scorer's reason in its reason cache.
C22_LeafDelegates ==
    ret.op = "leaf_compute_score" =>
        LET r == VariantScore(scorer[Root], ret.ctx, {})
        IN  r.ok => /\ ret.ok
                    /\ ret.tr = <<Root>>
                    /\ ret.val = r.val.val
                    /\ score[Root] = r.val.val
                    /\ reason[Root] # None

\* C25: after an evaluation of a parent whose children returned scores in
\* [0, 1], the parent's score lies between the lowest and the highest of its
\* children's scores: some child scored at most what the parent scored and
\* some child at least that, whichever rule applied.
C25_Between ==
    ret.op = "float_compute_score"
        => /\ \E i \in 1 .. Len(children[Root]) :
                  RatLeq(score[children[Root][i]], score[Root])
           /\ \E i \in 1 .. Len(children[Root]) :
                  RatLeq(score[Root], score[children[Root][i]])

\* C29 as claimed: when an evaluation follows one in which a single child
\* scored lower and the other children scored the same, the parent's score is
\* at least what it was.
C29_StepAny ==
    (ret'.op = "float_compute_score" /\ ret'.ctx # 0)
        => LET c == children[Root][ret'.ctx]
           IN  (score[c] # score'[c] /\ RatLeq(score[c], score'[c]))
                   => RatLeq(score[Root], score'[Root])
C29_MonotoneAny == [][C29_StepAny]_vars

\* C29, amended: the same, unless the raised child is critical and after the
\* raise every critical child scores exactly 1, so that the rule changes from
\* the mean of all children to the mean of the non-critical ones.
C29_Step ==
    (ret'.op = "float_compute_score" /\ ret'.ctx # 0)
        => LET c == children[Root][ret'.ctx]
           IN  (/\ score[c] # score'[c] /\ RatLeq(score[c], score'[c])
                /\ ~(/\ is_critical[c]
                     /\ \A i \in CriticalIdx(Root) : score'[children[Root][i]] = One))
                   => RatLeq(score[Root], score'[Root])
C29_Monotone == [][C29_Step]_vars

\* A non-critical child's scorer returned 1 where it returned less before,
\* next to a critical child that scored neither 0 nor 1: the parent's score
\* is the mean of all, above 0.
C29_Witness ==
    /\ ret.op = "float_compute_score"
    /\ ret.ctx # 0
    /\ ~is_critical[children[Root][ret.ctx]]
    /\ score[children[Root][ret.ctx]] = One
    /\ \E i \in CriticalIdx(Root) : score[children[Root][i]] \notin {Zero, One}
    /\ score[Root] \notin {Zero, One}

\* C26: whatever calls were made, a parent's cached reason was synthesized
\* from the score the parent holds now and, when it came from an explanation
\* request, from the scores its children hold now.
C26_ReasonCurrent ==
    \A p \in alive :
        (Len(children[p]) > 0 /\ reason[p] # None)
            => /\ reason[p][1].own = score[p]
               /\ reason[p][1].kind = "llm"
                      => reason[p][1].kids = [j \in 1 .. Len(children[p]) |->
                                                 ScoreProperty(children[p][j])]

\* C27: a read of the reason of a node whose cached score is unset returns the
\* placeholder text without raising, issues no explanation request and leaves
\* the cached scores and reasons as they were, on parents as on leaves.
C27_Step ==
    (ret'.op = "reason" /\ score[ret'.node] = None)
        => /\ ret'.ok
           /\ ret'.val = <<Placeholder>>
           /\ ret'.rq = NoRequests
           /\ reason' = reason
           /\ score' = score
C27_UnscoredRead == [][C27_Step]_vars

\* Position of the node object c in the list xs, 0 when it is not in it.
FirstAt(xs, c) ==
    IF \E i \in 1 .. Len(xs) : xs[i] = c
    THEN CHOOSE i \in 1 .. Len(xs) : xs[i] = c /\ \A j \in 1 .. i - 1 : xs[j] # c
    ELSE 0

\* C28: parent.remove_child(c) takes the node object c, and nothing else, out
\* of parent's children, keeping the order of the rest; it changes nothing
\* when c is not among them, whatever the fields of the other children; no
\* other call takes a child out of any list.
C28_Step ==
    /\ \A p \in alive, c \in alive :
           RemoveChild(p, c)
               => /\ ret'.ok
                  /\ children' = IF FirstAt(children[p], c) = 0 THEN children
                                 ELSE [children EXCEPT
                                          ![p] = RemoveAt(@, FirstAt(children[p], c))]
    /\ ret'.op # "remove_child"
           => \A q \in alive :
                  /\ Len(children'[q]) >= Len(children[q])
                  /\ SubSeq(children'[q], 1, Len(children[q])) = children[q]
C28_RemoveExactly == [][C28_Step]_vars

\* The parents of the tree, and the position of node n in the sequence s.
Parents == {p \in alive : Len(children[p]) > 0}
PosIn(s, n) == CHOOSE i \in 1 .. Len(s) : s[i] = n

\* C30: when the tree was just evaluated from its root with success and no
\* parent holds a reason, a read of the root's reason returns after exactly
\* one explanation request per parent, the request of every parent issued
\* after those of the parents below it, whose reasons are cached by then; the
\* read that follows issues no request.
C30_Step ==
    /\ (/\ ret'.op = "reason" /\ ret'.node = Root
        /\ ret.op \in {"compute_score", "evaluate"} /\ ret.ok /\ ret.node = Root
        /\ \A p \in Parents : reason[p] = None)
           => /\ ret'.ok
              /\ Len(ret'.tr) = Cardinality(Parents)
              /\ \A n \in alive : ret'.rq[n] = IF n \in Parents THEN 1 ELSE 0
              /\ \A p \in Parents :
                     /\ \E i \in 1 .. Len(ret'.tr) : ret'.tr[i] = p
                     /\ reason'[p] # None
              /\ \A a \in Parents, d \in Parents :
                     (d # a /\ d \in Subtree(a))
                         => PosIn(ret'.tr, d) < PosIn(ret'.tr, a)
    /\ (/\ ret'.op = "reason" /\ ret'.node = Root
        /\ ret.op = "reason" /\ ret.node = Root /\ ret.ok)
           => /\ ret'.ok
              /\ ret'.tr = <<>>
              /\ \A n \in alive : ret'.rq[n] = 0
              /\ ret'.val = ret.val
C30_OneRequestPerParent == [][C30_Step]_vars

\* The root's reason was read on an evaluated chain of two parents: the lower
\* parent's request came first, then the root's, and both reasons are cached.
C30_Witness ==
    /\ ret.op = "reason" /\ ret.node = Root /\ ret.ok
    /\ Cardinality(Parents) = 2
    /\ Len(ret.tr) = 2
    /\ ret.tr[2] = Root
    /\ ret.tr[1] \in Parents \ {Root}
    /\ \A p \in Parents : reason[p] # None /\ ret.rq[p] = 1
    /\ \A n \in alive : score[n] # None

====
